---------------------------- MODULE Spec2Model ----------------------------
(***************************************************************************)
(* Model of the neural-inference primitive estimator (src/src/lib.rs).     *)
(*                                                                         *)
(* Numbers.  An f64 score x is the integer x * ONE (four decimal digits);  *)
(* a product of two scores is Mul.  A DateTime<Utc> is a whole number of   *)
(* minutes since a midnight, so that (a - b).num_minutes() is a - b and    *)
(* hour() is (t \div 60) % 24.  Numeric event properties are whole numbers *)
(* in the unit of the source (hours, minutes, mg, lux, grams, percent,     *)
(* ms, bpm, mg/dL, degrees C); sleep_efficiency is in percent.             *)
(***************************************************************************)
EXTENDS Integers, Sequences, FiniteSets, TLC

ONE == 10000

None == -1

Min(a, b) == IF a <= b THEN a ELSE b

Max(a, b) == IF a >= b THEN a ELSE b

Abs(a) == IF a >= 0 THEN a ELSE -a

Clamp(x, lo, hi) == IF x < lo THEN lo ELSE IF x > hi THEN hi ELSE x

Mul(a, b) == (a * b) \div ONE

EmptyMap == [k \in {} |-> 0]

Get(map, key, default) == IF key \in DOMAIN map THEN map[key] ELSE default

Prop(event, key, default) == Get(event.properties, key, default)

Hour(ts) == (ts \div 60) % 24

Minute(ts) == ts % 60

\* hour() as f64 + minute() as f64 / 60.0
HourOfDay(ts) == Hour(ts) * ONE + (Minute(ts) * ONE) \div 60

\* (estimation_time - timestamp).num_minutes() as f64 / 60.0
HoursAgo(estimation_time, ts) == ((estimation_time - ts) * ONE) \div 60

Primitives ==
    {"dopamine", "norepinephrine", "serotonin", "adenosine",
     "circadian_phase", "cortisol", "glucose"}

\* exp(-x) for a fixed-point x >= 0: exp(-x) = 2^(-k) * exp(-r), x = k*ln2 + r,
\* with exp(-r) by its Taylor polynomial of degree 5 (Horner form).
ExpNeg(x) ==
    LET k  == x \div 6931
        r  == x % 6931
        p5 == ONE - r \div 5
        p4 == ONE - Mul(r, p5) \div 4
        p3 == ONE - Mul(r, p4) \div 3
        p2 == ONE - Mul(r, p3) \div 2
        p1 == ONE - Mul(r, p2)
    IN  IF k > 14 THEN 0 ELSE p1 \div (2 ^ k)

\* exponential_decay(hours_ago, half_life_hours), hours_ago = minutes / 60
exponential_decay(minutes, half_life_hours) ==
    ExpNeg((6931 * minutes) \div (60 * half_life_hours))

(***************************************************************************)
(* Context windows                                                         *)
(***************************************************************************)
for_primitive(primitive) ==
    CASE primitive = "glucose"         -> [window_hours |-> 8,   decay_half_life_hours |-> 2]
      [] primitive = "norepinephrine"  -> [window_hours |-> 12,  decay_half_life_hours |-> 4]
      [] primitive = "adenosine"       -> [window_hours |-> 20,  decay_half_life_hours |-> 16]
      [] primitive = "cortisol"        -> [window_hours |-> 48,  decay_half_life_hours |-> 12]
      [] primitive = "dopamine"        -> [window_hours |-> 72,  decay_half_life_hours |-> 24]
      [] primitive = "serotonin"       -> [window_hours |-> 96,  decay_half_life_hours |-> 36]
      [] primitive = "circadian_phase" -> [window_hours |-> 168, decay_half_life_hours |-> 72]

acute_for_monoamine(primitive) ==
    CASE primitive = "dopamine"  -> [window_hours |-> 12, decay_half_life_hours |-> 6]
      [] primitive = "serotonin" -> [window_hours |-> 16, decay_half_life_hours |-> 8]
      [] OTHER -> for_primitive(primitive)

chronic_for_monoamine(primitive) ==
    CASE primitive = "dopamine"  -> [window_hours |-> 72, decay_half_life_hours |-> 24]
      [] primitive = "serotonin" -> [window_hours |-> 96, decay_half_life_hours |-> 36]
      [] OTHER -> for_primitive(primitive)

(***************************************************************************)
(* Physiological constraint generation                                     *)
(***************************************************************************)
Constraint(m, primitive, kind, value, reason) ==
    [source_measurement |-> m.measurement_type, source_value |-> m.value,
     affects_primitive |-> primitive, kind |-> kind, value |-> value,
     reason |-> reason]

\* an HRV rule whose cortisol floor is 0.5
generate_hrv_constraints_low_floor(m, hours_ago) ==
    IF hours_ago > 2 * ONE THEN << >>
    ELSE (IF m.value < 30
          THEN << Constraint(m, "cortisol", "Floor", 5000,
                             "Very low HRV indicates high stress/cortisol"),
                  Constraint(m, "adenosine", "ConfidencePenalty", 7000,
                             "Low HRV suggests stress rather than pure sleep debt") >>
          ELSE << >>)
         \o
         (IF m.value > 70
          THEN << Constraint(m, "cortisol", "Ceiling", 4000,
                             "High HRV indicates low stress/cortisol") >>
          ELSE << >>)

generate_hrv_constraints(m, hours_ago) ==
    IF hours_ago > 2 * ONE THEN << >>
    ELSE (IF m.value < 30
          THEN << Constraint(m, "cortisol", "Floor", 6000,
                             "Very low HRV indicates high stress/cortisol"),
                  Constraint(m, "adenosine", "ConfidencePenalty", 7000,
                             "Low HRV suggests stress rather than pure sleep debt") >>
          ELSE << >>)
         \o
         (IF m.value > 70
          THEN << Constraint(m, "cortisol", "Ceiling", 4000,
                             "High HRV indicates low stress/cortisol") >>
          ELSE << >>)

generate_hr_constraints(m, hours_ago) ==
    IF hours_ago > 1 * ONE THEN << >>
    ELSE (IF m.value > 80
          THEN << Constraint(m, "norepinephrine", "Floor", 5000,
                             "Elevated HR indicates norepinephrine activity"),
                  Constraint(m, "adenosine", "ConfidencePenalty", 6000,
                             "High HR contradicts high sleep pressure") >>
          ELSE << >>)
         \o
         (IF m.value < 55
          THEN << Constraint(m, "norepinephrine", "Ceiling", 4000,
                             "Low HR indicates low arousal/norepinephrine") >>
          ELSE << >>)

generate_spo2_constraints(m, hours_ago) ==
    IF m.value < 92 /\ hours_ago < 8 * ONE
    THEN << Constraint(m, "dopamine", "ConfidencePenalty", 5000,
                       "Low SpO2 suggests impaired sleep quality affecting dopamine recovery") >>
    ELSE << >>

\* a glucose rule whose normal band leaves out its two end points
generate_glucose_constraints_open_band(m, hours_ago) ==
    IF hours_ago > 2 * ONE THEN << >>
    ELSE (IF m.value < 70
          THEN << Constraint(m, "cortisol", "Floor", 6000,
                             "Hypoglycemia triggers cortisol release"),
                  Constraint(m, "glucose", "Override", 2000,
                             "Direct glucose measurement (low)") >>
          ELSE << >>)
         \o
         (IF m.value > 70 /\ m.value < 100
          THEN << Constraint(m, "glucose", "Override",
                             5000 + Clamp(((m.value - 85) * ONE) \div 30, -3000, 3000),
                             "Direct glucose measurement (normal)") >>
          ELSE << >>)
         \o
         (IF m.value > 140
          THEN << Constraint(m, "glucose", "Override", 8000,
                             "Direct glucose measurement (high)") >>
          ELSE << >>)

generate_glucose_constraints(m, hours_ago) ==
    IF hours_ago > 2 * ONE THEN << >>
    ELSE (IF m.value < 70
          THEN << Constraint(m, "cortisol", "Floor", 6000,
                             "Hypoglycemia triggers cortisol release"),
                  Constraint(m, "glucose", "Override", 2000,
                             "Direct glucose measurement (low)") >>
          ELSE << >>)
         \o
         (IF m.value >= 70 /\ m.value <= 100
          THEN << Constraint(m, "glucose", "Override",
                             5000 + Clamp(((m.value - 85) * ONE) \div 30, -3000, 3000),
                             "Direct glucose measurement (normal)") >>
          ELSE << >>)
         \o
         (IF m.value > 140
          THEN << Constraint(m, "glucose", "Override", 8000,
                             "Direct glucose measurement (high)") >>
          ELSE << >>)

generate_temperature_constraints(m, hours_ago) ==
    IF 10 * m.value < 365 /\ hours_ago < 4 * ONE
    THEN << Constraint(m, "circadian_phase", "ConfidencePenalty", 8000,
                       "Low body temp indicates circadian nadir timing") >>
    ELSE << >>

generate_respiratory_constraints(m, hours_ago) ==
    IF hours_ago > 1 * ONE THEN << >>
    ELSE IF m.value > 18
         THEN << Constraint(m, "cortisol", "Floor", 5000,
                            "Elevated respiratory rate indicates stress"),
                 Constraint(m, "serotonin", "ConfidencePenalty", 7000,
                            "High respiratory rate suggests anxiety/low serotonin") >>
         ELSE << >>

\* a steps rule that caps the dopamine score instead of its confidence
generate_steps_constraints_ceiling(m, hours_ago) ==
    IF hours_ago < 12 * ONE \/ hours_ago > 30 * ONE THEN << >>
    ELSE IF m.value < 2000
         THEN << Constraint(m, "dopamine", "Ceiling", 4000,
                            "Very low activity contradicts high dopamine predictions") >>
         ELSE << >>

generate_steps_constraints(m, hours_ago) ==
    IF hours_ago < 12 * ONE \/ hours_ago > 30 * ONE THEN << >>
    ELSE IF m.value < 2000
         THEN << Constraint(m, "dopamine", "ConfidencePenalty", 6000,
                            "Very low activity contradicts high dopamine predictions") >>
         ELSE << >>

generate_constraints(m, estimation_time) ==
    LET hours_ago == HoursAgo(estimation_time, m.timestamp)
    IN  CASE m.measurement_type = "HeartRateVariability" -> generate_hrv_constraints(m, hours_ago)
          [] m.measurement_type = "HeartRate"       -> generate_hr_constraints(m, hours_ago)
          [] m.measurement_type = "BloodOxygen"     -> generate_spo2_constraints(m, hours_ago)
          [] m.measurement_type = "BloodGlucose"    -> generate_glucose_constraints(m, hours_ago)
          [] m.measurement_type = "BodyTemperature" -> generate_temperature_constraints(m, hours_ago)
          [] m.measurement_type = "RespiratoryRate" -> generate_respiratory_constraints(m, hours_ago)
          [] m.measurement_type = "Steps"           -> generate_steps_constraints(m, hours_ago)

(***************************************************************************)
(* Event impact functions                                                  *)
(***************************************************************************)
Ratio(n, d) == (n * ONE) \div d

compute_sleep_impacts(event) ==
    LET duration == Prop(event, "duration_hours", 7)
        quality_str == Prop(event, "quality", "good")
        quality_score ==
            CASE quality_str = "excellent" -> 10000
              [] quality_str = "good" -> 8000
              [] quality_str = "fair" -> 6000
              [] quality_str = "poor" -> 4000
              [] OTHER -> 8000
        sleep_efficiency == Prop(event, "sleep_efficiency", 85)
        adenosine_clearance ==
            -Mul(Mul((duration * ONE * 10) \div 75, quality_score), 8500)
        dopamine_impact ==
            IF duration >= 7 THEN Mul(3000, quality_score)
            ELSE IF duration >= 6 THEN Mul(1500, quality_score)
            ELSE -Mul(2000, ONE - quality_score)
        serotonin_impact ==
            Mul(Mul(2500, quality_score), Min((duration * ONE * 10) \div 75, ONE))
        cortisol_impact ==
            IF quality_score >= 7000 THEN -1200
            ELSE Mul(1500, ONE - quality_score)
        glucose_impact ==
            IF duration >= 6 /\ sleep_efficiency >= 67 THEN 2000
            ELSE -Mul(3000, ONE - Min(Ratio(duration, 6), ONE))
        hour_of_sleep == Hour(event.timestamp)
        phase_impact ==
            IF hour_of_sleep >= 22 /\ hour_of_sleep <= 24 THEN 0
            ELSE IF hour_of_sleep >= 0 /\ hour_of_sleep <= 2
                 THEN Mul(2000, Ratio(hour_of_sleep, 2))
                 ELSE 0
    IN  [adenosine |-> adenosine_clearance, dopamine |-> dopamine_impact,
         serotonin |-> serotonin_impact, cortisol |-> cortisol_impact,
         glucose |-> glucose_impact, circadian_phase |-> phase_impact]

compute_light_impacts(event, estimation_time) ==
    LET intensity == Prop(event, "intensity_lux", 1000)
        duration_min == Prop(event, "duration_minutes", 30)
        hour_of_day == Hour(event.timestamp)
        is_morning == hour_of_day >= 6 /\ hour_of_day <= 11
        is_evening == hour_of_day >= 18 /\ hour_of_day <= 22
        circadian_impact ==
            IF intensity >= 2000
            THEN IF is_morning THEN -Mul(8000, Min(Ratio(duration_min, 120), ONE))
                 ELSE IF is_evening THEN Mul(6000, Min(Ratio(duration_min, 120), ONE))
                 ELSE -2000
            ELSE IF intensity >= 100
                 THEN IF is_morning THEN -3000 ELSE IF is_evening THEN 3000 ELSE 0
                 ELSE 0
        cortisol_impact ==
            IF intensity >= 5000 THEN 800 ELSE IF intensity >= 800 THEN 500 ELSE 200
    IN  [circadian_phase |-> circadian_impact]
        @@ (IF is_morning /\ intensity >= 2000
            THEN [serotonin |-> Mul(Mul(2500, Min(Ratio(intensity, 10000), ONE)),
                                    Min(Ratio(duration_min, 30), ONE))]
            ELSE EmptyMap)
        @@ (IF is_morning THEN [cortisol |-> cortisol_impact] ELSE EmptyMap)

compute_meal_impacts(event) ==
    LET carbs == Prop(event, "carb_grams", 50)
        protein == Prop(event, "protein_grams", 20)
        protein_pct == Prop(event, "protein_percentage", 20)
        gi_str == Prop(event, "glycemic_index", "medium")
        gi_score ==
            CASE gi_str = "low" -> 3000
              [] gi_str = "medium" -> 6000
              [] gi_str = "high" -> 10000
              [] OTHER -> 6000
        glucose_impact ==
            IF protein >= 50 THEN 1000 + Mul(gi_score, 1000)
            ELSE 1500 + Mul(gi_score, 1500)
        serotonin_impact ==
            IF protein_pct < 10 /\ carbs > 40
            THEN Mul(3500, Max(ONE - Ratio(protein_pct, 20), 0))
            ELSE IF protein_pct > 25 THEN -1500 ELSE 1000
        dopamine_impact ==
            IF protein >= 15 THEN Mul(1500, Min(Ratio(protein, 50), ONE)) ELSE 500
        gi_dopamine_boost == Mul(gi_score, 1000)
        meal_type == Prop(event, "meal_type", "lunch")
        hour_of_meal == Hour(event.timestamp)
        circadian_impact ==
            IF meal_type = "breakfast" /\ hour_of_meal >= 6 /\ hour_of_meal <= 9 THEN 1000
            ELSE IF meal_type = "dinner" /\ hour_of_meal >= 18 /\ hour_of_meal <= 20 THEN 0
            ELSE IF meal_type = "dinner" /\ hour_of_meal >= 21 THEN 2000
            ELSE 0
    IN  [glucose |-> glucose_impact, serotonin |-> serotonin_impact,
         dopamine |-> dopamine_impact + gi_dopamine_boost,
         circadian_phase |-> circadian_impact]

compute_caffeine_impacts(event) ==
    LET dose_mg == Prop(event, "dose_mg", 100)
        a2a_occupancy == Min(Ratio(dose_mg, dose_mg + 65), ONE)
        dopamine_impact == Mul(1500, Min(Ratio(dose_mg, 200), ONE))
        norepinephrine_impact == Mul(2500, Min(Ratio(dose_mg, 200), 13000))
        cortisol_impact == Mul(1500, Min(Ratio(dose_mg, 200), ONE))
        hours == Prop(event, "hours_before_intended_sleep", None)
    IN  [adenosine |-> -Mul(5000, a2a_occupancy), dopamine |-> dopamine_impact,
         norepinephrine |-> norepinephrine_impact, cortisol |-> cortisol_impact]
        @@ (IF hours # None /\ hours <= 6
            THEN [circadian_phase |->
                    Mul(Mul(3000, Min(Ratio(dose_mg, 200), ONE)), ONE - Ratio(hours, 6))]
            ELSE EmptyMap)

compute_exercise_impacts(event) ==
    LET duration_min == Prop(event, "duration_minutes", 30)
        intensity_str == Prop(event, "intensity", "moderate")
        vo2max_pct == Prop(event, "vo2max_percentage", 65)
        exercise_type == Prop(event, "type", "cardio")
        intensity_pct ==
            CASE intensity_str = "light" -> 40
              [] intensity_str = "moderate" -> 65
              [] intensity_str = "vigorous" -> 75
              [] intensity_str = "high_intensity" -> 85
              [] OTHER -> vo2max_pct
        dopamine_boost ==
            IF exercise_type = "hiit" THEN Mul(3500, Min(Ratio(duration_min, 45), ONE))
            ELSE IF intensity_pct >= 70 THEN Mul(2500, Min(Ratio(duration_min, 60), ONE))
            ELSE Mul(1500, Min(Ratio(duration_min, 60), ONE))
        norepinephrine_boost ==
            IF intensity_pct >= 70 THEN Mul(4000, Ratio(intensity_pct, 100)) ELSE 2000
        serotonin_boost == Mul(2000, Min(Ratio(duration_min, 60), ONE))
        cortisol_impact ==
            IF intensity_pct >= 75 /\ duration_min >= 45 THEN 2000 ELSE -800
        glucose_depletion ==
            -Mul(Mul(3000, Ratio(intensity_pct, 100)), Min(Ratio(duration_min, 60), ONE))
    IN  [dopamine |-> dopamine_boost, norepinephrine |-> norepinephrine_boost,
         serotonin |-> serotonin_boost, cortisol |-> cortisol_impact,
         glucose |-> glucose_depletion]

compute_nap_impacts(event) ==
    LET duration_min == Prop(event, "duration_minutes", 20)
        adenosine_clearance ==
            IF duration_min <= 30 THEN -Mul(2500, Ratio(duration_min, 30))
            ELSE -Mul(4000, Min(Ratio(duration_min, 90), ONE))
    IN  [adenosine |-> adenosine_clearance]
        @@ (IF duration_min >= 60 THEN [circadian_phase |-> 1500] ELSE EmptyMap)

compute_stress_impacts(event) ==
    LET intensity_str == Prop(event, "intensity", "moderate")
        intensity_score ==
            CASE intensity_str = "mild" -> 3000
              [] intensity_str = "moderate" -> 6000
              [] intensity_str = "high" -> 10000
              [] intensity_str = "severe" -> 13000
              [] OTHER -> 6000
        controllable == Prop(event, "controllable", FALSE)
        social_evaluative == Prop(event, "social_evaluative", FALSE)
        m1 == IF ~controllable THEN Mul(ONE, 14000) ELSE ONE
        cortisol_multiplier == IF social_evaluative THEN Mul(m1, 12500) ELSE m1
        cortisol_impact == Mul(Mul(2500, intensity_score), cortisol_multiplier)
        glucose_impact ==
            Mul(Mul(2500, intensity_score), Min(cortisol_multiplier \div 2, 12000))
    IN  [cortisol |-> Min(cortisol_impact, 5500),
         norepinephrine |-> Mul(3000, intensity_score),
         dopamine |-> -Mul(2000, intensity_score),
         serotonin |-> -Mul(2500, intensity_score),
         glucose |-> Min(glucose_impact, 4000)]

compute_social_impacts(event) ==
    LET quality_str == Prop(event, "quality", "neutral")
        quality_score ==
            CASE quality_str = "very_positive" -> 10000
              [] quality_str = "positive" -> 7000
              [] quality_str = "neutral" -> 0
              [] quality_str = "negative" -> -5000
              [] quality_str = "very_negative" -> -10000
              [] OTHER -> 0
        duration_hours == Ratio(Prop(event, "duration_minutes", 60), 60)
    IN  IF quality_score > 0
        THEN [serotonin |-> Mul(Mul(3000, quality_score), Min(duration_hours \div 2, ONE)),
              dopamine |-> Mul(2000, quality_score),
              cortisol |-> -Mul(2000, quality_score)]
        ELSE [serotonin |-> -Mul(3000, -quality_score),
              cortisol |-> Mul(4000, -quality_score)]

compute_screen_impacts(event) ==
    LET hours == Prop(event, "hours_before_sleep", None)
        blue_light_str == Prop(event, "blue_light_intensity", "medium")
        blue_light_factor ==
            CASE blue_light_str = "low" -> 3000
              [] blue_light_str = "medium" -> 6000
              [] blue_light_str = "high" -> 10000
              [] OTHER -> 6000
    IN  IF hours # None /\ hours <= 3
        THEN [circadian_phase |-> Mul(Mul(2500, blue_light_factor), ONE - Ratio(hours, 3)),
              adenosine |-> -Mul(1500, blue_light_factor)]
        ELSE EmptyMap

compute_interruption_impacts(event) ==
    LET frequency == Prop(event, "frequency", 3)
        stress_factor == Min(Ratio(frequency, 10), ONE)
    IN  [cortisol |-> Mul(2000, stress_factor),
         dopamine |-> -Mul(1500, stress_factor)]

compute_event_impacts(event, estimation_time) ==
    CASE event.event_type = "sleep" -> compute_sleep_impacts(event)
      [] event.event_type = "light_exposure" -> compute_light_impacts(event, estimation_time)
      [] event.event_type = "meal" -> compute_meal_impacts(event)
      [] event.event_type = "caffeine" -> compute_caffeine_impacts(event)
      [] event.event_type = "exercise" -> compute_exercise_impacts(event)
      [] event.event_type = "nap" -> compute_nap_impacts(event)
      [] event.event_type = "stress_event" -> compute_stress_impacts(event)
      [] event.event_type = "social_interaction" -> compute_social_impacts(event)
      [] event.event_type = "screen_time" -> compute_screen_impacts(event)
      [] event.event_type = "interruption" -> compute_interruption_impacts(event)
      [] OTHER -> EmptyMap

(***************************************************************************)
(* Sequence helpers                                                        *)
(***************************************************************************)
RECURSIVE SumSeq(_)
SumSeq(s) == IF s = << >> THEN 0 ELSE Head(s) + SumSeq(Tail(s))

Take(s, n) == SubSeq(s, 1, Min(n, Len(s)))

\* s.iter().map(F).collect()
MapSeq(s, F(_)) == [i \in 1..Len(s) |-> F(s[i])]

\* insertion of c into a list sorted by descending |decayed_impact|, after its equals
RECURSIVE InsertSorted(_, _)
InsertSorted(sorted, c) ==
    IF sorted = << >> THEN << c >>
    ELSE IF Abs(Head(sorted).decayed_impact) >= Abs(c.decayed_impact)
         THEN << Head(sorted) >> \o InsertSorted(Tail(sorted), c)
         ELSE << c >> \o sorted

\* contributors.sort_by(|a, b| b.decayed_impact.abs().partial_cmp(&a.decayed_impact.abs()))
RECURSIVE SortContributors(_)
SortContributors(s) ==
    IF s = << >> THEN << >>
    ELSE InsertSorted(SortContributors(SubSeq(s, 1, Len(s) - 1)), s[Len(s)])

EventContribution(event_id, event_type, impact, decayed_impact, hours_ago) ==
    [event_id |-> event_id, event_type |-> event_type, impact |-> impact,
     decayed_impact |-> decayed_impact, hours_ago |-> hours_ago]

\* the EventContribution of an event of raw impact `impact`, `minutes` before
\* the query: decayed_impact = impact * exponential_decay(hours_ago, half_life)
decayed_contribution(event, event_type, impact, minutes, half_life_hours) ==
    EventContribution(event.event_id, event_type, impact,
                      Mul(impact, exponential_decay(minutes, half_life_hours)),
                      Ratio(minutes, 60))

\* the sum of the decayed impacts of a list of contributions
decayed_sum(contributors) == SumSeq(MapSeq(contributors, LAMBDA c: c.decayed_impact))

(***************************************************************************)
(* PrimitiveEstimator                                                      *)
(***************************************************************************)
NewEstimator ==
    [baseline_values |->
        [dopamine |-> 5000, norepinephrine |-> 5000, serotonin |-> 5000,
         adenosine |-> 3000, circadian_phase |-> 5000, cortisol |-> 4000,
         glucose |-> 5000],
     current_adenosine_level |-> 3000]

compute_caffeine_dopamine_boost(events, estimation_time) ==
    LET cutoff_time == estimation_time - 12 * 60
        caffeine_events ==
            SelectSeq(events, LAMBDA e: e.event_type = "caffeine"
                                        /\ e.timestamp >= cutoff_time
                                        /\ e.timestamp <= estimation_time)
        boost(event) ==
            LET dose_mg == Prop(event, "dose_mg", 100)
                minutes == estimation_time - event.timestamp
                plasma_concentration == dose_mg * ExpNeg((1500 * minutes) \div 60)
            IN  Min(plasma_concentration \div 100, 2500)
        total_boost ==
            SumSeq([i \in 1..Len(caffeine_events) |-> boost(caffeine_events[i])])
    IN  Min(total_boost, 4000)

cortisol_circadian_multiplier(estimation_time) ==
    LET h == HourOfDay(estimation_time)
    IN  IF h >= 0 /\ h < 2 * ONE THEN 2500
        ELSE IF h >= 2 * ONE /\ h < 6 * ONE
             THEN 2500 + Mul(3500, (h - 2 * ONE) \div 4)
        ELSE IF h >= 6 * ONE /\ h < 9 * ONE
             THEN LET progress == (h - 6 * ONE) \div 3
                  IN  IF progress < 5000
                      THEN 6000 + Mul(4000, progress) * 2
                      ELSE ONE - Mul(1000, progress - 5000) * 2
        ELSE IF h >= 9 * ONE /\ h < 12 * ONE
             THEN 9000 - Mul(2000, (h - 9 * ONE) \div 3)
        ELSE IF h >= 12 * ONE /\ h < 18 * ONE
             THEN 7000 - Mul(2500, (h - 12 * ONE) \div 6)
        ELSE IF h >= 18 * ONE /\ h < 22 * ONE
             THEN 4500 - Mul(1500, (h - 18 * ONE) \div 4)
        ELSE 3000 - Mul(500, (h - 22 * ONE) \div 2)

\* the loop over events.iter().rev(): index i downwards, break on an event
\* older than the lookback, skip events after the estimation time
RECURSIVE AwakeningScan(_, _, _, _)
AwakeningScan(events, i, lookback_time, estimation_time) ==
    IF i = 0 THEN None
    ELSE IF events[i].timestamp < lookback_time THEN None
    ELSE IF events[i].timestamp > estimation_time
         THEN AwakeningScan(events, i - 1, lookback_time, estimation_time)
    ELSE IF events[i].event_type = "wake" THEN events[i].timestamp
    ELSE AwakeningScan(events, i - 1, lookback_time, estimation_time)

\* a boost taken from the earliest wake event of the last 2 hours
cortisol_awakening_boost_earliest(events, estimation_time) ==
    LET lookback_time == estimation_time - 2 * 60
        wakes == SelectSeq(events, LAMBDA e : /\ e.event_type = "wake"
                                              /\ e.timestamp >= lookback_time
                                              /\ e.timestamp <= estimation_time)
        most_recent_wake == IF wakes = << >> THEN None ELSE wakes[1].timestamp
        minutes_since_wake == estimation_time - most_recent_wake
    IN  IF most_recent_wake # None
        THEN IF minutes_since_wake <= 60
             THEN IF minutes_since_wake <= 35
                  THEN ONE + Mul(7500, Ratio(minutes_since_wake, 35))
                  ELSE 17500 - Mul(3500, Ratio(minutes_since_wake - 35, 60 - 35))
             ELSE IF minutes_since_wake <= 120
                  THEN 14000 - Mul(4000, Ratio(minutes_since_wake - 60, 60))
                  ELSE ONE
        ELSE ONE

cortisol_awakening_boost(events, estimation_time) ==
    LET lookback_time == estimation_time - 2 * 60
        most_recent_wake ==
            AwakeningScan(events, Len(events), lookback_time, estimation_time)
        minutes_since_wake == estimation_time - most_recent_wake
    IN  IF most_recent_wake # None
        THEN IF minutes_since_wake <= 60
             THEN IF minutes_since_wake <= 35
                  THEN ONE + Mul(7500, Ratio(minutes_since_wake, 35))
                  ELSE 17500 - Mul(3500, Ratio(minutes_since_wake - 35, 60 - 35))
             ELSE IF minutes_since_wake <= 120
                  THEN 14000 - Mul(4000, Ratio(minutes_since_wake - 60, 60))
                  ELSE ONE
        ELSE ONE

\* the forward loop of compute_adenosine_special: the last qualifying event
\* in log order sets most_recent_wake
RECURSIVE WakeScan(_, _, _, _)
WakeScan(events, i, estimation_time, most_recent_wake) ==
    IF i > Len(events) THEN most_recent_wake
    ELSE LET event == events[i]
             next ==
                 IF event.timestamp > estimation_time THEN most_recent_wake
                 ELSE IF event.event_type = "wake" THEN event.timestamp
                 ELSE IF event.event_type = "sleep"
                         /\ event.end_timestamp # None
                         /\ event.end_timestamp <= estimation_time
                      THEN event.end_timestamp
                 ELSE most_recent_wake
         IN  WakeScan(events, i + 1, estimation_time, next)

hours_awake_minutes(events, estimation_time) ==
    LET most_recent_wake == WakeScan(events, 1, estimation_time, None)
    IN  IF most_recent_wake # None
        THEN Max(estimation_time - most_recent_wake, 0)
        ELSE 8 * 60

\* a baseline taken from the estimator's scratch cell instead of its constants
adenosine_baseline_from_cell(self) == self.current_adenosine_level

\* self.baseline_values.get("adenosine").copied().unwrap_or(0.3)
adenosine_baseline(self) == Get(self.baseline_values, "adenosine", 3000)

\* base_accumulation = (1 - exp(-hours_awake / 16)).clamp(0, 1)
adenosine_base_accumulation(events, estimation_time) ==
    Clamp(ONE - ExpNeg(Ratio(hours_awake_minutes(events, estimation_time), 60 * 16)), 0, ONE)

\* the sleep loop: sleeps that ended within the last 20 hours
adenosine_sleep_contributions(events, estimation_time) ==
    MapSeq(SelectSeq(events, LAMBDA e: e.event_type = "sleep"
                                       /\ e.end_timestamp # None
                                       /\ e.end_timestamp >= estimation_time - 20 * 60
                                       /\ e.end_timestamp <= estimation_time),
           LAMBDA event: decayed_contribution(event, "sleep",
                                              compute_sleep_impacts(event)["adenosine"],
                                              estimation_time - event.end_timestamp, 16))

\* the caffeine loop: caffeine taken within the last 12 hours
adenosine_caffeine_contributions(events, estimation_time) ==
    MapSeq(SelectSeq(events, LAMBDA e: e.event_type = "caffeine"
                                       /\ e.timestamp >= estimation_time - 12 * 60
                                       /\ e.timestamp <= estimation_time),
           LAMBDA event: decayed_contribution(event, "caffeine",
                                              compute_caffeine_impacts(event)["adenosine"],
                                              estimation_time - event.timestamp, 5))

\* the nap loop: naps started within the last 20 hours
adenosine_nap_contributions(events, estimation_time) ==
    MapSeq(SelectSeq(events, LAMBDA e: e.event_type = "nap"
                                       /\ e.timestamp >= estimation_time - 20 * 60
                                       /\ e.timestamp <= estimation_time),
           LAMBDA event: decayed_contribution(event, "nap",
                                              compute_nap_impacts(event)["adenosine"],
                                              estimation_time - event.timestamp, 8))

\* final_score = (baseline + base_accumulation + sleep_clearance
\*                + caffeine_suppression).clamp(0, 1), and the sorted contributors
adenosine_result(baseline, base_accumulation, sleeps, caffeines, naps) ==
    [score |->
        Clamp(baseline + base_accumulation
                + (decayed_sum(sleeps) + decayed_sum(naps)) + decayed_sum(caffeines),
              0, ONE),
     contributors |->
        SortContributors(
            sleeps \o caffeines \o naps
            \o << EventContribution("accumulated_wake_time", "wake_accumulation",
                                    base_accumulation, base_accumulation, 0) >>)]

compute_adenosine_special(self, events, estimation_time) ==
    adenosine_result(adenosine_baseline(self),
                     adenosine_base_accumulation(events, estimation_time),
                     adenosine_sleep_contributions(events, estimation_time),
                     adenosine_caffeine_contributions(events, estimation_time),
                     adenosine_nap_contributions(events, estimation_time))

compute_circadian_phase_special(self, events, estimation_time) ==
    LET ideal_sleep_time == 23
        sleep_events == SelectSeq(events, LAMBDA e: e.event_type = "sleep")
        taken == Take(sleep_events, 7)
        sleep_count == Len(taken)
        hour_sum == SumSeq([i \in 1..Len(taken) |-> Hour(taken[i].timestamp)])
        avg_sleep_hour ==
            IF sleep_count > 0
            THEN Ratio(ideal_sleep_time + hour_sum, sleep_count + 1)
            ELSE ideal_sleep_time * ONE
        phase_offset == (avg_sleep_hour - ideal_sleep_time * ONE) \div 10
        cutoff_time == estimation_time - 168 * 60
        light_events ==
            SelectSeq(events, LAMBDA e: e.event_type = "light_exposure"
                                        /\ e.timestamp >= cutoff_time
                                        /\ e.timestamp <= estimation_time)
        light_contrib(event) ==
            LET impact == compute_light_impacts(event, estimation_time)["circadian_phase"]
                minutes == estimation_time - event.timestamp
                decay == exponential_decay(minutes, 72)
            IN  EventContribution(event.event_id, "light_exposure", impact,
                                  Mul(impact, decay), Ratio(minutes, 60))
        contributors == [i \in 1..Len(light_events) |-> light_contrib(light_events[i])]
        light_adjustment ==
            SumSeq([i \in 1..Len(contributors) |-> contributors[i].decayed_impact])
        baseline == 5000
        final_score == Clamp(baseline + phase_offset + light_adjustment, 0, ONE)
    IN  [score |-> final_score, contributors |-> contributors]

\* the events of the window whose impacts name the primitive
impacting_events(primitive, events, estimation_time, window_hours) ==
    SelectSeq(events,
              LAMBDA e: /\ e.timestamp >= estimation_time - window_hours * 60
                        /\ e.timestamp <= estimation_time
                        /\ primitive \in DOMAIN compute_event_impacts(e, estimation_time))

\* the loop of compute_base_score: one EventContribution per impacting event
base_contributors(primitive, events, estimation_time, config) ==
    MapSeq(impacting_events(primitive, events, estimation_time, config.window_hours),
           LAMBDA event:
               decayed_contribution(event, event.event_type,
                                    compute_event_impacts(event, estimation_time)[primitive],
                                    estimation_time - event.timestamp,
                                    config.decay_half_life_hours))

\* a cortisol modulation whose relaxation portion has no cap
cortisol_final_score_uncapped(accumulated_impact, circadian_multiplier, awakening_boost) ==
    LET healthy_baseline == 1500 + Mul(5000, circadian_multiplier)
        stress_load == Max(accumulated_impact, 0)
        relaxation_effect == Min(accumulated_impact, 0)
        circadian_stress_sensitivity == 5000 + Mul(5000, circadian_multiplier)
        stress_response ==
            Mul(Mul(stress_load, awakening_boost), circadian_stress_sensitivity)
    IN  Clamp(healthy_baseline + stress_response + relaxation_effect, 1500, ONE)

\* the cortisol-specific circadian rhythm modulation
cortisol_final_score(accumulated_impact, circadian_multiplier, awakening_boost) ==
    LET healthy_baseline == 1500 + Mul(5000, circadian_multiplier)
        stress_load == Max(accumulated_impact, 0)
        relaxation_effect == Max(Min(accumulated_impact, 0), -1500)
        circadian_stress_sensitivity == 5000 + Mul(5000, circadian_multiplier)
        stress_response ==
            Mul(Mul(stress_load, awakening_boost), circadian_stress_sensitivity)
    IN  Clamp(healthy_baseline + stress_response + relaxation_effect, 1500, ONE)

base_final_score(self, primitive, events, estimation_time, accumulated_impact) ==
    IF primitive = "cortisol"
    THEN cortisol_final_score(accumulated_impact,
                              cortisol_circadian_multiplier(estimation_time),
                              cortisol_awakening_boost(events, estimation_time))
    ELSE Clamp(Get(self.baseline_values, primitive, 5000) + accumulated_impact, 0, ONE)

\* accumulated_impact (with the caffeine boost of dopamine), the final score
\* and the sorted contributors
base_result(self, primitive, events, estimation_time, contributors) ==
    [score |->
        base_final_score(self, primitive, events, estimation_time,
                         decayed_sum(contributors)
                         + (IF primitive = "dopamine"
                            THEN compute_caffeine_dopamine_boost(events, estimation_time)
                            ELSE 0)),
     contributors |-> SortContributors(contributors)]

compute_base_score(self, primitive, events, estimation_time) ==
    IF primitive = "adenosine"
    THEN compute_adenosine_special(self, events, estimation_time)
    ELSE IF primitive = "circadian_phase"
    THEN compute_circadian_phase_special(self, events, estimation_time)
    ELSE base_result(self, primitive, events, estimation_time,
                     base_contributors(primitive, events, estimation_time,
                                       for_primitive(primitive)))

\* one pass of the loop of compute_monoamine_scores: the contribution pushed
\* (decayed with the chronic half-life) and the acute contribution, which is
\* counted only within the acute window
monoamine_contribution(event, raw_impact, minutes, acute_config, chronic_config) ==
    [contribution |->
        decayed_contribution(event, event.event_type, raw_impact, minutes,
                             chronic_config.decay_half_life_hours),
     acute_contribution |->
        IF Ratio(minutes, 60) <= acute_config.window_hours * ONE
        THEN Mul(raw_impact, exponential_decay(minutes, acute_config.decay_half_life_hours))
        ELSE 0]

monoamine_contributions(primitive, events, estimation_time, acute_config, chronic_config) ==
    MapSeq(impacting_events(primitive, events, estimation_time, chronic_config.window_hours),
           LAMBDA event:
               monoamine_contribution(event,
                                      compute_event_impacts(event, estimation_time)[primitive],
                                      estimation_time - event.timestamp,
                                      acute_config, chronic_config))

monoamine_result(acute_score, chronic_score, all_contributors) ==
    [acute |-> acute_score, chronic |-> chronic_score,
     combined |-> Clamp(Mul(chronic_score, 7000) + Mul(acute_score, 3000), 0, ONE),
     contributors |-> SortContributors(all_contributors)]

monoamine_scores_of(baseline, parts) ==
    monoamine_result(
        Clamp(baseline + SumSeq(MapSeq(parts, LAMBDA c: c.acute_contribution)), 0, ONE),
        Clamp(baseline + SumSeq(MapSeq(parts, LAMBDA c: c.contribution.decayed_impact)),
              0, ONE),
        MapSeq(parts, LAMBDA c: c.contribution))

compute_monoamine_scores(self, primitive, events, estimation_time) ==
    monoamine_scores_of(Get(self.baseline_values, primitive, 5000),
                        monoamine_contributions(primitive, events, estimation_time,
                                                acute_for_monoamine(primitive),
                                                chronic_for_monoamine(primitive)))

circadian_sleep_pressure(hour_of_day, phase) ==
    LET phase_offset == (phase - 5000) * 4
        adjusted_hour == (hour_of_day + phase_offset + 24 * ONE) % (24 * ONE)
        distance_from_sleep_peak == Abs(adjusted_hour - 3 * ONE)
        distance_from_wake_peak == Abs(adjusted_hour - 15 * ONE)
        sleep_pressure ==
            IF distance_from_sleep_peak < 6 * ONE
            THEN 7000 + Mul(3000, ONE - distance_from_sleep_peak \div 6)
            ELSE IF distance_from_wake_peak < 3 * ONE THEN 2000
            ELSE 5000
    IN  Clamp(sleep_pressure, 0, ONE)

compute_sleep_drive(adenosine, circadian_phase, estimation_time) ==
    LET hour_of_day == HourOfDay(estimation_time)
        circadian_component == circadian_sleep_pressure(hour_of_day, circadian_phase)
    IN  Clamp(Mul(adenosine, 6000) + Mul(circadian_component, 4000), 0, ONE)

detect_sequences(events, estimation_time) ==
    LET lookback_hours == 72
        cutoff_time == estimation_time - lookback_hours * 60
        recent_events ==
            SelectSeq(events, LAMBDA e: e.timestamp >= cutoff_time
                                        /\ e.timestamp <= estimation_time)
        recent_sleep_events == SelectSeq(recent_events, LAMBDA e: e.event_type = "sleep")
        taken == Take(recent_sleep_events, 3)
        poor_sleep_count ==
            Cardinality({i \in 1..Len(taken) :
                            Prop(taken[i], "quality", "good") \in {"poor", "fair"}})
        ids == [i \in 1..Len(taken) |-> taken[i].event_id]
    IN  IF Len(recent_sleep_events) >= 2 /\ poor_sleep_count >= 2
        THEN << [pattern_name |-> "chronic_sleep_deprivation", events |-> ids,
                 impact_on_primitive |-> "dopamine", adjustment |-> -2000],
                [pattern_name |-> "chronic_sleep_deprivation", events |-> ids,
                 impact_on_primitive |-> "serotonin", adjustment |-> -1500] >>
        ELSE << >>

\* an adjustment pass that applies every adjustment twice
RECURSIVE apply_sequence_adjustments_twice(_, _)
apply_sequence_adjustments_twice(scores, sequences) ==
    IF sequences = << >> THEN scores
    ELSE LET sequence == Head(sequences)
             key == sequence.impact_on_primitive
             adjusted ==
                 IF key \in DOMAIN scores
                 THEN [scores EXCEPT ![key] = Clamp(@ + 2 * sequence.adjustment, 0, ONE)]
                 ELSE scores
         IN  apply_sequence_adjustments_twice(adjusted, Tail(sequences))

\* PASS 3: for sequence in &detected_sequences { *score = (*score + adjustment).clamp(0, 1) }
RECURSIVE apply_sequence_adjustments(_, _)
apply_sequence_adjustments(scores, sequences) ==
    IF sequences = << >> THEN scores
    ELSE LET sequence == Head(sequences)
             key == sequence.impact_on_primitive
             adjusted ==
                 IF key \in DOMAIN scores
                 THEN [scores EXCEPT ![key] = Clamp(@ + sequence.adjustment, 0, ONE)]
                 ELSE scores
         IN  apply_sequence_adjustments(adjusted, Tail(sequences))

\* a suppression term without its threshold
adenosine_suppression_unthresholded(adenosine) == -Mul(1500, adenosine - 6000)

\* let adenosine_suppression = if adenosine > 0.6 { -0.15 * (adenosine - 0.6) } else { 0.0 }
adenosine_suppression_of(adenosine) ==
    IF adenosine > 6000 THEN -Mul(1500, adenosine - 6000) ELSE 0

\* a modifier pass whose effective pair is taken from the scores before suppression
apply_cross_primitive_modifiers_stale_pair(scores) ==
    LET adenosine == Get(scores, "adenosine", 5000)
        cortisol == Get(scores, "cortisol", 5000)
        adenosine_suppression ==
            IF adenosine > 6000 THEN -Mul(1500, adenosine - 6000) ELSE 0
        cortisol_suppression_da ==
            IF cortisol > 6000 THEN -Mul(2000, cortisol - 6000) ELSE 0
        cortisol_suppression_ser ==
            IF cortisol > 6000 THEN -Mul(1500, cortisol - 6000) ELSE 0
        with_dopamine ==
            IF "dopamine" \in DOMAIN scores
            THEN [scores EXCEPT !["dopamine"] =
                    Clamp(@ + adenosine_suppression + cortisol_suppression_da, 0, ONE)]
            ELSE scores
        modified_scores ==
            IF "serotonin" \in DOMAIN scores
            THEN [with_dopamine EXCEPT !["serotonin"] =
                    Clamp(@ + cortisol_suppression_ser, 0, ONE)]
            ELSE with_dopamine
        dopamine == Get(scores, "dopamine", 5000)
        serotonin == Get(scores, "serotonin", 5000)
        inhibition_strength == 1500
        da_inhibits_ser == Mul(dopamine, inhibition_strength)
        ser_inhibits_da == Mul(serotonin, inhibition_strength)
    IN  [modified |-> modified_scores,
         effective |-> [dopamine |-> Max(dopamine - ser_inhibits_da, 0),
                        serotonin |-> Max(serotonin - da_inhibits_ser, 0)]]

apply_cross_primitive_modifiers(scores) ==
    LET adenosine == Get(scores, "adenosine", 5000)
        cortisol == Get(scores, "cortisol", 5000)
        adenosine_suppression == adenosine_suppression_of(adenosine)
        cortisol_suppression_da ==
            IF cortisol > 6000 THEN -Mul(2000, cortisol - 6000) ELSE 0
        cortisol_suppression_ser ==
            IF cortisol > 6000 THEN -Mul(1500, cortisol - 6000) ELSE 0
        with_dopamine ==
            IF "dopamine" \in DOMAIN scores
            THEN [scores EXCEPT !["dopamine"] =
                    Clamp(@ + adenosine_suppression + cortisol_suppression_da, 0, ONE)]
            ELSE scores
        modified_scores ==
            IF "serotonin" \in DOMAIN scores
            THEN [with_dopamine EXCEPT !["serotonin"] =
                    Clamp(@ + cortisol_suppression_ser, 0, ONE)]
            ELSE with_dopamine
        dopamine == Get(modified_scores, "dopamine", 5000)
        serotonin == Get(modified_scores, "serotonin", 5000)
        inhibition_strength == 1500
        da_inhibits_ser == Mul(dopamine, inhibition_strength)
        ser_inhibits_da == Mul(serotonin, inhibition_strength)
    IN  [modified |-> modified_scores,
         effective |-> [dopamine |-> Max(dopamine - ser_inhibits_da, 0),
                        serotonin |-> Max(serotonin - da_inhibits_ser, 0)]]

measurement_type_of(event_type) ==
    CASE event_type = "health_heart_rate" -> "HeartRate"
      [] event_type = "health_hrv" -> "HeartRateVariability"
      [] event_type = "health_blood_oxygen" -> "BloodOxygen"
      [] event_type = "health_blood_glucose" -> "BloodGlucose"
      [] event_type = "health_body_temperature" -> "BodyTemperature"
      [] event_type = "health_respiratory_rate" -> "RespiratoryRate"
      [] event_type = "health_steps" -> "Steps"
      [] OTHER -> "None"

\* a window that forgets to skip events after the estimation time
in_measurement_window_open(event, estimation_time) ==
    ~(event.timestamp < estimation_time - 24 * 60)

\* if event.timestamp < cutoff_time || event.timestamp > estimation_time { continue; }
in_measurement_window(event, estimation_time) ==
    ~(event.timestamp < estimation_time - 24 * 60 \/ event.timestamp > estimation_time)

extract_physiological_measurements(events, estimation_time) ==
    LET taken ==
            SelectSeq(events, LAMBDA e: in_measurement_window(e, estimation_time)
                                        /\ measurement_type_of(e.event_type) # "None"
                                        /\ "value" \in DOMAIN e.properties)
    IN  [i \in 1..Len(taken) |->
            [measurement_type |-> measurement_type_of(taken[i].event_type),
             value |-> taken[i].properties["value"],
             timestamp |-> taken[i].timestamp,
             unit |-> Prop(taken[i], "unit", "")]]

RECURSIVE generate_all_constraints(_, _)
generate_all_constraints(measurements, estimation_time) ==
    IF measurements = << >> THEN << >>
    ELSE generate_constraints(Head(measurements), estimation_time)
         \o generate_all_constraints(Tail(measurements), estimation_time)

\* a confidence update without the clamp
confidence_after_unclamped(conf, confidence_impact) == conf + confidence_impact

\* *conf = (*conf + confidence_impact).clamp(0.1, 1.0)
confidence_after(conf, confidence_impact) == Clamp(conf + confidence_impact, 1000, ONE)

\* an override that adds the measurement to the whole prediction
override_blend_unweighted(value, current_score) == Mul(value, 7000) + current_score

\* new_score = value * 0.7 + current_score * 0.3
override_blend(value, current_score) == Mul(value, 7000) + Mul(current_score, 3000)

\* a loop body that records a constraint only when it moved the score
apply_constraint_score_changes_only(acc, constraint) ==
    LET primitive_key == constraint.affects_primitive
        current_score == acc.scores[primitive_key]
        binds ==
            \/ constraint.kind = "Floor" /\ current_score < constraint.value
            \/ constraint.kind = "Ceiling" /\ current_score > constraint.value
        new_score ==
            CASE constraint.kind \in {"Floor", "Ceiling"} ->
                    IF binds THEN constraint.value ELSE current_score
              [] constraint.kind = "Override" ->
                    override_blend(constraint.value, current_score)
              [] constraint.kind = "ConfidencePenalty" -> current_score
        confidence_impact ==
            CASE constraint.kind \in {"Floor", "Ceiling"} -> IF binds THEN -2000 ELSE 0
              [] constraint.kind = "Override" -> 3000
              [] constraint.kind = "ConfidencePenalty" -> -(ONE - constraint.value)
        record ==
            [primitive |-> primitive_key,
             constraint_source |-> constraint.source_measurement,
             original_score |-> current_score, adjusted_score |-> new_score,
             confidence_impact |-> confidence_impact, reason |-> constraint.reason]
    IN  IF primitive_key \in DOMAIN acc.scores
        THEN [scores |-> [acc.scores EXCEPT ![primitive_key] = new_score],
              confidence |->
                  IF primitive_key \in DOMAIN acc.confidence
                  THEN [acc.confidence EXCEPT ![primitive_key] =
                            confidence_after(@, confidence_impact)]
                  ELSE acc.confidence,
              applied |->
                  IF Abs(new_score - current_score) > 100
                  THEN Append(acc.applied, record)
                  ELSE acc.applied]
        ELSE acc

\* the body of the loop over all_constraints: one constraint applied to the
\* current (adjusted_scores, confidence_scores, applied_constraints)
apply_constraint(acc, constraint) ==
    LET primitive_key == constraint.affects_primitive
        current_score == acc.scores[primitive_key]
        binds ==
            \/ constraint.kind = "Floor" /\ current_score < constraint.value
            \/ constraint.kind = "Ceiling" /\ current_score > constraint.value
        new_score ==
            CASE constraint.kind \in {"Floor", "Ceiling"} ->
                    IF binds THEN constraint.value ELSE current_score
              [] constraint.kind = "Override" ->
                    override_blend(constraint.value, current_score)
              [] constraint.kind = "ConfidencePenalty" -> current_score
        confidence_impact ==
            CASE constraint.kind \in {"Floor", "Ceiling"} -> IF binds THEN -2000 ELSE 0
              [] constraint.kind = "Override" -> 3000
              [] constraint.kind = "ConfidencePenalty" -> -(ONE - constraint.value)
        record ==
            [primitive |-> primitive_key,
             constraint_source |-> constraint.source_measurement,
             original_score |-> current_score, adjusted_score |-> new_score,
             confidence_impact |-> confidence_impact, reason |-> constraint.reason]
    IN  IF primitive_key \in DOMAIN acc.scores
        THEN [scores |-> [acc.scores EXCEPT ![primitive_key] = new_score],
              confidence |->
                  IF primitive_key \in DOMAIN acc.confidence
                  THEN [acc.confidence EXCEPT ![primitive_key] =
                            confidence_after(@, confidence_impact)]
                  ELSE acc.confidence,
              applied |->
                  IF Abs(new_score - current_score) > 100 \/ Abs(confidence_impact) > 100
                  THEN Append(acc.applied, record)
                  ELSE acc.applied]
        ELSE acc

\* a loop that applies the constraints from the last generated to the first
RECURSIVE apply_constraints_latest_first(_, _)
apply_constraints_latest_first(acc, constraints) ==
    IF constraints = << >> THEN acc
    ELSE apply_constraint(apply_constraints_latest_first(acc, Tail(constraints)),
                          Head(constraints))

RECURSIVE apply_constraints(_, _)
apply_constraints(acc, constraints) ==
    IF constraints = << >> THEN acc
    ELSE apply_constraints(apply_constraint(acc, Head(constraints)), Tail(constraints))

apply_physiological_validation(self, scores, events, estimation_time) ==
    LET measurements == extract_physiological_measurements(events, estimation_time)
        full_confidence == [k \in DOMAIN scores |-> ONE]
    IN  IF measurements = << >>
        THEN [scores |-> scores, confidence |-> full_confidence, applied |-> << >>]
        ELSE apply_constraints(
                 [scores |-> scores, confidence |-> full_confidence, applied |-> << >>],
                 generate_all_constraints(measurements, estimation_time))

\* a classifier whose thresholds are strict
compute_functional_state_strict(dopamine, serotonin) ==
    IF dopamine > 6000 /\ serotonin > 6000 THEN "Optimal"
    ELSE IF dopamine > 6000 /\ serotonin < 5000 THEN "Driven but Anxious"
    ELSE IF dopamine < 5000 /\ serotonin > 6000 THEN "Content but Unmotivated"
    ELSE "Depleted"

\* the state_type of the FunctionalState (description and recommendations
\* are fixed texts per state_type)
compute_functional_state(dopamine, serotonin) ==
    IF dopamine >= 6000 /\ serotonin >= 6000 THEN "Optimal"
    ELSE IF dopamine >= 6000 /\ serotonin < 5000 THEN "Driven but Anxious"
    ELSE IF dopamine < 5000 /\ serotonin >= 6000 THEN "Content but Unmotivated"
    ELSE "Depleted"

\* a ratio guarded only against a serotonin of exactly zero
da_ser_ratio_zero_guard(dopamine_effective, serotonin_effective) ==
    IF serotonin_effective > 0
    THEN Ratio(dopamine_effective, serotonin_effective)
    ELSE Ratio(dopamine_effective, 100)

da_ser_ratio_of(dopamine_effective, serotonin_effective) ==
    IF serotonin_effective > 100
    THEN Ratio(dopamine_effective, serotonin_effective)
    ELSE Ratio(dopamine_effective, 100)

\* the result-building loop and the EstimationResult literal
build_result(estimation_time, base, contributors, acute, chronic, effective, final, confidence, sequences, drive, ratio, state, applied) ==
    [timestamp |-> estimation_time,
     primitives |->
        [key \in DOMAIN base |->
            [base_score |-> base[key],
             modified_score |-> Get(final, key, base[key]),
             contributors |-> Get(contributors, key, << >>),
             confidence |-> Get(confidence, key, ONE),
             acute_score |->
                 IF key \in {"dopamine", "serotonin"} THEN Get(acute, key, None) ELSE None,
             chronic_score |->
                 IF key \in {"dopamine", "serotonin"} THEN Get(chronic, key, None) ELSE None,
             effective_score |->
                 IF key \in {"dopamine", "serotonin"} THEN Get(effective, key, None) ELSE None]],
     detected_sequences |-> sequences,
     sleep_drive |-> drive,
     dopamine_serotonin_ratio |-> ratio,
     functional_state |-> state,
     physiological_constraints |-> applied]

\* estimate_at_time as one function of (self, events, estimation_time):
\* the returned EstimationResult and the estimator it leaves behind
estimate_at_time(self, events, estimation_time) ==
    LET adenosine == compute_base_score(self, "adenosine", events, estimation_time)
        self1 == [self EXCEPT !.current_adenosine_level = adenosine.score]
        circadian == compute_base_score(self1, "circadian_phase", events, estimation_time)
        da == compute_monoamine_scores(self1, "dopamine", events, estimation_time)
        ser == compute_monoamine_scores(self1, "serotonin", events, estimation_time)
        rest == [p \in {"norepinephrine", "cortisol", "glucose"} |->
                    compute_base_score(self1, p, events, estimation_time)]
        base ==
            [p \in Primitives |->
                CASE p = "adenosine" -> adenosine.score
                  [] p = "circadian_phase" -> circadian.score
                  [] p = "dopamine" -> da.combined
                  [] p = "serotonin" -> ser.combined
                  [] OTHER -> rest[p].score]
        contributors ==
            [p \in Primitives |->
                CASE p = "adenosine" -> adenosine.contributors
                  [] p = "circadian_phase" -> circadian.contributors
                  [] p = "dopamine" -> da.contributors
                  [] p = "serotonin" -> ser.contributors
                  [] OTHER -> rest[p].contributors]
        acute == [dopamine |-> da.acute, serotonin |-> ser.acute]
        chronic == [dopamine |-> da.chronic, serotonin |-> ser.chronic]
        drive == compute_sleep_drive(adenosine.score, circadian.score, estimation_time)
        sequences == detect_sequences(events, estimation_time)
        adjusted == apply_sequence_adjustments(base, sequences)
        cross == apply_cross_primitive_modifiers(adjusted)
        validated == apply_physiological_validation(self1, cross.modified, events, estimation_time)
        dopamine_effective ==
            Get(cross.effective, "dopamine", Get(validated.scores, "dopamine", 5000))
        serotonin_effective ==
            Get(cross.effective, "serotonin", Get(validated.scores, "serotonin", 5000))
    IN  [estimator |-> self1,
         result |->
            build_result(estimation_time, base, contributors, acute, chronic,
                         cross.effective, validated.scores, validated.confidence,
                         sequences, drive,
                         da_ser_ratio_of(dopamine_effective, serotonin_effective),
                         compute_functional_state(dopamine_effective, serotonin_effective),
                         validated.applied)]

(***************************************************************************)
(* Event logs handed to the estimator                                      *)
(***************************************************************************)
At(day, hour, minute) == day * 1440 + hour * 60 + minute

Event(event_id, event_type, timestamp, end_timestamp, properties) ==
    [event_id |-> event_id, event_type |-> event_type, timestamp |-> timestamp,
     end_timestamp |-> end_timestamp, properties |-> properties]

MaxEvents == 4

QueryTimes == {At(4, 8, 0), At(4, 14, 0)}

\* a chronological pool of events of one subject; a log is a subsequence
EventPool ==
    << Event("hrv_old", "health_hrv", At(2, 20, 0), None, [value |-> 20, unit |-> "ms"]),
       Event("steps", "health_steps", At(3, 19, 0), None, [value |-> 1500, unit |-> "steps"]),
       Event("sleep_3", "sleep", At(3, 23, 0), At(4, 7, 0),
             [duration_hours |-> 8, quality |-> "good", sleep_efficiency |-> 90]),
       Event("wake_4", "wake", At(4, 7, 0), None, [natural_wake |-> TRUE]),
       Event("coffee", "caffeine", At(4, 7, 15), None, [dose_mg |-> 200, form |-> "coffee"]),
       Event("hrv_am", "health_hrv", At(4, 7, 30), None, [value |-> 20, unit |-> "ms"]),
       Event("glucose_am", "health_blood_glucose", At(4, 8, 0), None,
             [value |-> 65, unit |-> "mg/dL"]),
       Event("gym", "exercise", At(4, 10, 0), None,
             [duration_minutes |-> 60, intensity |-> "high_intensity", type |-> "cardio"]),
       Event("stress", "stress_event", At(4, 12, 0), None,
             [intensity |-> "high", controllable |-> FALSE]),
       Event("hrv_pm", "health_hrv", At(4, 13, 0), None, [value |-> 20, unit |-> "ms"]),
       Event("hr_pm", "health_heart_rate", At(4, 13, 30), None, [value |-> 90, unit |-> "bpm"]),
       Event("hrv_novalue", "health_hrv", At(4, 13, 45), None, [unit |-> "ms"]),
       Event("glucose_pm", "health_blood_glucose", At(4, 14, 0), None,
             [value |-> 65, unit |-> "mg/dL"]) >>

RECURSIVE SubLog(_, _, _)
SubLog(pool, indices, i) ==
    IF i > Len(pool) THEN << >>
    ELSE (IF i \in indices THEN << pool[i] >> ELSE << >>) \o SubLog(pool, indices, i + 1)

IndexSets(pool) == {I \in SUBSET (1..Len(pool)) : Cardinality(I) <= MaxEvents}

(***************************************************************************)
(* The estimator and one estimate_at_time call in progress                 *)
(***************************************************************************)
VARIABLES
    estimator,              \* the PrimitiveEstimator (self)
    events,                 \* argument: the event log
    estimation_time,        \* argument: the query time
    pc,                     \* position in estimate_at_time
    base_scores, all_contributors, acute_scores, chronic_scores,
    sleep_drive, detected_sequences, adjusted_scores,
    cross_modified_scores, effective_monoamines,
    final_scores, confidence_scores, applied_constraints,
    da_ser_ratio, functional_state,
    result,                 \* the EstimationResult last returned
    previous,               \* history: the result returned before that one
    server                  \* the estimate_profile request being served

locals ==
    << base_scores, all_contributors, acute_scores, chronic_scores,
       sleep_drive, detected_sequences, adjusted_scores,
       cross_modified_scores, effective_monoamines,
       final_scores, confidence_scores, applied_constraints,
       da_ser_ratio, functional_state >>

vars == << estimator, events, estimation_time, pc, locals, result, previous, server >>

NoResult == [timestamp |-> None]

NoRequest == [pc |-> "waiting"]

Put(map, key, value) == (key :> value) @@ map

FreshLocals ==
    /\ base_scores = EmptyMap
    /\ all_contributors = EmptyMap
    /\ acute_scores = EmptyMap
    /\ chronic_scores = EmptyMap
    /\ sleep_drive = 0
    /\ detected_sequences = << >>
    /\ adjusted_scores = EmptyMap
    /\ cross_modified_scores = EmptyMap
    /\ effective_monoamines = EmptyMap
    /\ final_scores = EmptyMap
    /\ confidence_scores = EmptyMap
    /\ applied_constraints = << >>
    /\ da_ser_ratio = 0
    /\ functional_state = "None"

Init ==
    /\ estimator = NewEstimator
    /\ events = << >>
    /\ estimation_time = 0
    /\ pc = "idle"
    /\ FreshLocals
    /\ result = NoResult
    /\ previous = NoResult
    /\ server = NoRequest

\* entry of estimate_at_time(&self, events, estimation_time)
Enter(log, time) ==
    /\ events' = log
    /\ estimation_time' = time
    /\ pc' = "pass1_adenosine"
    /\ base_scores' = EmptyMap
    /\ all_contributors' = EmptyMap
    /\ acute_scores' = EmptyMap
    /\ chronic_scores' = EmptyMap
    /\ sleep_drive' = 0
    /\ detected_sequences' = << >>
    /\ adjusted_scores' = EmptyMap
    /\ cross_modified_scores' = EmptyMap
    /\ effective_monoamines' = EmptyMap
    /\ final_scores' = EmptyMap
    /\ confidence_scores' = EmptyMap
    /\ applied_constraints' = << >>
    /\ da_ser_ratio' = 0
    /\ functional_state' = "None"
    /\ previous' = result
    /\ UNCHANGED << estimator, result >>

\* a call made outside the server's request handler
Begin(log, time) == Enter(log, time) /\ UNCHANGED server

\* base_scores.insert(primitive, score); all_contributors.insert(primitive, contributors)
InsertBase(primitive, r) ==
    /\ base_scores' = Put(base_scores, primitive, r.score)
    /\ all_contributors' = Put(all_contributors, primitive, r.contributors)

\* the inserts of the dopamine and serotonin loop
InsertMonoamines(da, ser) ==
    /\ base_scores' =
         Put(Put(base_scores, "dopamine", da.combined), "serotonin", ser.combined)
    /\ all_contributors' =
         Put(Put(all_contributors, "dopamine", da.contributors),
             "serotonin", ser.contributors)
    /\ acute_scores' =
         Put(Put(acute_scores, "dopamine", da.acute), "serotonin", ser.acute)
    /\ chronic_scores' =
         Put(Put(chronic_scores, "dopamine", da.chronic), "serotonin", ser.chronic)

\* the inserts of the loop over the remaining primitives
InsertRemaining(r) ==
    /\ base_scores' = [p \in DOMAIN r |-> r[p].score] @@ base_scores
    /\ all_contributors' = [p \in DOMAIN r |-> r[p].contributors] @@ all_contributors

Call ==
    /\ pc = "idle"
    /\ \E I \in IndexSets(EventPool), time \in QueryTimes :
          Begin(SubLog(EventPool, I, 1), time)

Pass1Adenosine ==
    /\ pc = "pass1_adenosine"
    /\ InsertBase("adenosine",
                  compute_base_score(estimator, "adenosine", events, estimation_time))
    /\ estimator' = [estimator EXCEPT !.current_adenosine_level = base_scores'["adenosine"]]
    /\ pc' = "pass1_circadian"
    /\ UNCHANGED << events, estimation_time, acute_scores, chronic_scores,
                    sleep_drive, detected_sequences, adjusted_scores,
                    cross_modified_scores, effective_monoamines, final_scores,
                    confidence_scores, applied_constraints, da_ser_ratio,
                    functional_state, result, previous, server >>

Pass1Circadian ==
    /\ pc = "pass1_circadian"
    /\ InsertBase("circadian_phase",
                  compute_base_score(estimator, "circadian_phase", events, estimation_time))
    /\ pc' = "pass1_monoamines"
    /\ UNCHANGED << estimator, events, estimation_time, acute_scores, chronic_scores,
                    sleep_drive, detected_sequences, adjusted_scores,
                    cross_modified_scores, effective_monoamines, final_scores,
                    confidence_scores, applied_constraints, da_ser_ratio,
                    functional_state, result, previous, server >>

Pass1Monoamines ==
    /\ pc = "pass1_monoamines"
    /\ InsertMonoamines(
           compute_monoamine_scores(estimator, "dopamine", events, estimation_time),
           compute_monoamine_scores(estimator, "serotonin", events, estimation_time))
    /\ pc' = "pass1_remaining"
    /\ UNCHANGED << estimator, events, estimation_time,
                    sleep_drive, detected_sequences, adjusted_scores,
                    cross_modified_scores, effective_monoamines, final_scores,
                    confidence_scores, applied_constraints, da_ser_ratio,
                    functional_state, result, previous, server >>

Pass1Remaining ==
    /\ pc = "pass1_remaining"
    /\ InsertRemaining(
           [p \in Primitives \ {"adenosine", "circadian_phase", "dopamine", "serotonin"} |->
               compute_base_score(estimator, p, events, estimation_time)])
    /\ pc' = "sleep_drive"
    /\ UNCHANGED << estimator, events, estimation_time, acute_scores, chronic_scores,
                    sleep_drive, detected_sequences, adjusted_scores,
                    cross_modified_scores, effective_monoamines, final_scores,
                    confidence_scores, applied_constraints, da_ser_ratio,
                    functional_state, result, previous, server >>

SleepDrive ==
    /\ pc = "sleep_drive"
    /\ sleep_drive' = compute_sleep_drive(base_scores["adenosine"],
                                          base_scores["circadian_phase"], estimation_time)
    /\ pc' = "pass2"
    /\ UNCHANGED << estimator, events, estimation_time, base_scores, all_contributors,
                    acute_scores, chronic_scores, detected_sequences, adjusted_scores,
                    cross_modified_scores, effective_monoamines, final_scores,
                    confidence_scores, applied_constraints, da_ser_ratio,
                    functional_state, result, previous, server >>

Pass2 ==
    /\ pc = "pass2"
    /\ detected_sequences' = detect_sequences(events, estimation_time)
    /\ pc' = "pass3"
    /\ UNCHANGED << estimator, events, estimation_time, base_scores, all_contributors,
                    acute_scores, chronic_scores, sleep_drive, adjusted_scores,
                    cross_modified_scores, effective_monoamines, final_scores,
                    confidence_scores, applied_constraints, da_ser_ratio,
                    functional_state, result, previous, server >>

Pass3 ==
    /\ pc = "pass3"
    /\ adjusted_scores' = apply_sequence_adjustments(base_scores, detected_sequences)
    /\ pc' = "pass4"
    /\ UNCHANGED << estimator, events, estimation_time, base_scores, all_contributors,
                    acute_scores, chronic_scores, sleep_drive, detected_sequences,
                    cross_modified_scores, effective_monoamines, final_scores,
                    confidence_scores, applied_constraints, da_ser_ratio,
                    functional_state, result, previous, server >>

\* a modifier pass that reads the base scores, skipping the sequence adjustments
Pass4_on_base_scores ==
    /\ pc = "pass4"
    /\ LET r == apply_cross_primitive_modifiers(base_scores)
       IN  /\ cross_modified_scores' = r.modified
           /\ effective_monoamines' = r.effective
    /\ pc' = "pass5"
    /\ UNCHANGED << estimator, events, estimation_time, base_scores, all_contributors,
                    acute_scores, chronic_scores, sleep_drive, detected_sequences,
                    adjusted_scores, final_scores,
                    confidence_scores, applied_constraints, da_ser_ratio,
                    functional_state, result, previous, server >>

Pass4 ==
    /\ pc = "pass4"
    /\ LET r == apply_cross_primitive_modifiers(adjusted_scores)
       IN  /\ cross_modified_scores' = r.modified
           /\ effective_monoamines' = r.effective
    /\ pc' = "pass5"
    /\ UNCHANGED << estimator, events, estimation_time, base_scores, all_contributors,
                    acute_scores, chronic_scores, sleep_drive, detected_sequences,
                    adjusted_scores, final_scores,
                    confidence_scores, applied_constraints, da_ser_ratio,
                    functional_state, result, previous, server >>

Pass5 ==
    /\ pc = "pass5"
    /\ LET r == apply_physiological_validation(estimator, cross_modified_scores,
                                               events, estimation_time)
       IN  /\ final_scores' = r.scores
           /\ confidence_scores' = r.confidence
           /\ applied_constraints' = r.applied
    /\ pc' = "classify"
    /\ UNCHANGED << estimator, events, estimation_time, base_scores, all_contributors,
                    acute_scores, chronic_scores, sleep_drive, detected_sequences,
                    adjusted_scores, cross_modified_scores, effective_monoamines,
                    da_ser_ratio, functional_state, result, previous, server >>

Classify ==
    /\ pc = "classify"
    /\ LET dopamine_effective ==
               Get(effective_monoamines, "dopamine", Get(final_scores, "dopamine", 5000))
           serotonin_effective ==
               Get(effective_monoamines, "serotonin", Get(final_scores, "serotonin", 5000))
       IN  /\ da_ser_ratio' = da_ser_ratio_of(dopamine_effective, serotonin_effective)
           /\ functional_state' =
                compute_functional_state(dopamine_effective, serotonin_effective)
    /\ pc' = "assemble"
    /\ UNCHANGED << estimator, events, estimation_time, base_scores, all_contributors,
                    acute_scores, chronic_scores, sleep_drive, detected_sequences,
                    adjusted_scores, cross_modified_scores, effective_monoamines,
                    final_scores, confidence_scores, applied_constraints, result, previous, server >>

Assemble ==
    /\ pc = "assemble"
    /\ result' = build_result(estimation_time, base_scores, all_contributors,
                              acute_scores, chronic_scores, effective_monoamines,
                              final_scores, confidence_scores, detected_sequences,
                              sleep_drive, da_ser_ratio, functional_state,
                              applied_constraints)
    /\ pc' = "done"
    /\ UNCHANGED << estimator, events, estimation_time, locals, previous, server >>

Passes ==
    \/ Pass1Adenosine
    \/ Pass1Circadian
    \/ Pass1Monoamines
    \/ Pass1Remaining
    \/ SleepDrive
    \/ Pass2
    \/ Pass3
    \/ Pass4
    \/ Pass5
    \/ Classify
    \/ Assemble

Next == Call \/ Passes

Spec == Init /\ [][Next]_vars

(***************************************************************************)
(* Repeated calls on one estimator (the server's timeline loop, the CLI    *)
(* and the chat bridge all call estimate_at_time through &self)            *)
(***************************************************************************)
CallIndexSets == {{}, {3, 4}, {3, 4, 5}, {9, 10, 13}}

CallAgain ==
    /\ pc \in {"idle", "done"}
    /\ \E I \in CallIndexSets, time \in QueryTimes :
          Begin(SubLog(EventPool, I, 1), time)

NextCalls == CallAgain \/ Passes

SpecCalls == Init /\ [][NextCalls]_vars

(***************************************************************************)
(* Logs in an order other than chronological                               *)
(***************************************************************************)
MaxShuffled == 3

OrderPool ==
    << Event("wake_early", "wake", At(4, 6, 30), None, [natural_wake |-> TRUE]),
       Event("wake_late", "wake", At(4, 7, 30), None, [natural_wake |-> FALSE]),
       Event("espresso", "caffeine", At(4, 7, 45), None, [dose_mg |-> 100, form |-> "coffee"]),
       Event("resp", "health_respiratory_rate", At(4, 7, 50), None,
             [value |-> 20, unit |-> "bpm"]) >>

Permuted(log, f) == [i \in 1..Len(log) |-> log[f[i]]]

CallShuffled ==
    /\ pc = "idle"
    /\ \E I \in {J \in SUBSET (1..Len(OrderPool)) : Cardinality(J) <= MaxShuffled},
          time \in QueryTimes :
          \E f \in Permutations(1..Cardinality(I)) :
              Begin(Permuted(SubLog(OrderPool, I, 1), f), time)

NextOrder == CallShuffled \/ Passes

SpecOrder == Init /\ [][NextOrder]_vars

(***************************************************************************)
(* Logs of several nights of sleep                                         *)
(***************************************************************************)
SleepPool ==
    << Event("siesta_1", "sleep", At(1, 13, 0), At(1, 15, 0),
             [duration_hours |-> 2, quality |-> "poor"]),
       Event("night_1", "sleep", At(1, 23, 0), At(2, 5, 0),
             [duration_hours |-> 6, quality |-> "fair"]),
       Event("night_2", "sleep", At(2, 23, 0), At(3, 7, 0),
             [duration_hours |-> 8, quality |-> "good"]),
       Event("siesta_3", "sleep", At(3, 13, 0), At(3, 14, 0), [duration_hours |-> 1]),
       Event("night_3", "sleep", At(3, 23, 0), At(4, 4, 0),
             [duration_hours |-> 5, quality |-> "poor"]),
       Event("alarm_4", "wake", At(4, 4, 0), None, [alarm |-> TRUE]),
       Event("deadline", "stress_event", At(4, 7, 0), None,
             [intensity |-> "severe", social_evaluative |-> TRUE]) >>

CallSleep ==
    /\ pc = "idle"
    /\ \E I \in IndexSets(SleepPool), time \in QueryTimes :
          Begin(SubLog(SleepPool, I, 1), time)

NextSleep == CallSleep \/ Passes

SpecSleep == Init /\ [][NextSleep]_vars

(***************************************************************************)
(* Logs of daily step counts of several ages                               *)
(***************************************************************************)
StepsPool ==
    << Event("steps_day2_20", "health_steps", At(2, 20, 0), None,
             [value |-> 1500, unit |-> "steps"]),
       Event("steps_day3_06", "health_steps", At(3, 6, 0), None,
             [value |-> 1500, unit |-> "steps"]),
       Event("steps_day3_08", "health_steps", At(3, 8, 0), None,
             [value |-> 1500, unit |-> "steps"]),
       Event("steps_active", "health_steps", At(3, 19, 0), None,
             [value |-> 8000, unit |-> "steps"]),
       Event("steps_day3_20", "health_steps", At(3, 20, 0), None,
             [value |-> 1500, unit |-> "steps"]),
       Event("steps_day4_00", "health_steps", At(4, 0, 0), None,
             [value |-> 1500, unit |-> "steps"]),
       Event("latte", "caffeine", At(4, 7, 0), None, [dose_mg |-> 80, form |-> "coffee"]) >>

CallSteps ==
    /\ pc = "idle"
    /\ \E I \in IndexSets(StepsPool), time \in QueryTimes :
          Begin(SubLog(StepsPool, I, 1), time)

NextSteps == CallSteps \/ Passes

SpecSteps == Init /\ [][NextSteps]_vars

(***************************************************************************)
(* Logs with light exposure at several times of day                        *)
(***************************************************************************)
LightPool ==
    << Event("light_noon", "light_exposure", At(3, 12, 0), None,
             [intensity_lux |-> 5000, duration_minutes |-> 20]),
       Event("light_dusk", "light_exposure", At(3, 19, 0), None,
             [intensity_lux |-> 500, duration_minutes |-> 30]),
       Event("night", "sleep", At(3, 23, 0), At(4, 7, 0),
             [duration_hours |-> 8, quality |-> "good"]),
       Event("light_dawn", "light_exposure", At(4, 7, 30), None,
             [intensity_lux |-> 10000, duration_minutes |-> 60]),
       Event("cappuccino", "caffeine", At(4, 7, 40), None,
             [dose_mg |-> 100, form |-> "coffee"]),
       Event("walk", "exercise", At(4, 12, 30), None,
             [duration_minutes |-> 30, intensity |-> "light", type |-> "cardio"]) >>

CallLight ==
    /\ pc = "idle"
    /\ \E I \in IndexSets(LightPool), time \in QueryTimes :
          Begin(SubLog(LightPool, I, 1), time)

NextLight == CallLight \/ Passes

SpecLight == Init /\ [][NextLight]_vars

(***************************************************************************)
(* Logs that carry a sleep-deprivation sequence and wearable measurements  *)
(***************************************************************************)
ChainPool ==
    << Event("doze_1", "sleep", At(1, 13, 0), At(1, 15, 0),
             [duration_hours |-> 2, quality |-> "poor"]),
       Event("short_night_1", "sleep", At(1, 23, 0), At(2, 5, 0),
             [duration_hours |-> 6, quality |-> "fair"]),
       Event("steps_low", "health_steps", At(3, 19, 0), None,
             [value |-> 1500, unit |-> "steps"]),
       Event("hrv_low", "health_hrv", At(4, 7, 30), None, [value |-> 20, unit |-> "ms"]),
       Event("hrv_high", "health_hrv", At(4, 7, 40), None, [value |-> 80, unit |-> "ms"]),
       Event("glucose_low", "health_blood_glucose", At(4, 7, 50), None,
             [value |-> 65, unit |-> "mg/dL"]),
       Event("glucose_high", "health_blood_glucose", At(4, 13, 0), None,
             [value |-> 150, unit |-> "mg/dL"]),
       Event("hr_high", "health_heart_rate", At(4, 13, 30), None,
             [value |-> 90, unit |-> "bpm"]) >>

CallChain ==
    /\ pc = "idle"
    /\ \E I \in IndexSets(ChainPool), time \in QueryTimes :
          Begin(SubLog(ChainPool, I, 1), time)

NextChain == CallChain \/ Passes

SpecChain == Init /\ [][NextChain]_vars

(***************************************************************************)
(* Logs of blood-glucose readings across the bands of the glucose rule     *)
(***************************************************************************)
GlucoseReading(event_id, timestamp, value) ==
    Event(event_id, "health_blood_glucose", timestamp, None,
          [value |-> value, unit |-> "mg/dL"])

GlucosePool ==
    << GlucoseReading("glucose_150", At(4, 5, 59), 150),
       GlucoseReading("glucose_69", At(4, 6, 0), 69),
       GlucoseReading("glucose_65", At(4, 7, 0), 65),
       GlucoseReading("glucose_70", At(4, 7, 10), 70),
       GlucoseReading("glucose_85", At(4, 7, 20), 85),
       GlucoseReading("glucose_91", At(4, 7, 25), 91),
       GlucoseReading("glucose_100", At(4, 7, 30), 100),
       GlucoseReading("glucose_101", At(4, 7, 40), 101),
       GlucoseReading("glucose_140", At(4, 7, 45), 140),
       GlucoseReading("glucose_141", At(4, 7, 50), 141) >>

CallGlucose ==
    /\ pc = "idle"
    /\ \E I \in IndexSets(GlucosePool), time \in QueryTimes :
          Begin(SubLog(GlucosePool, I, 1), time)

NextGlucose == CallGlucose \/ Passes

SpecGlucose == Init /\ [][NextGlucose]_vars

(***************************************************************************)
(* Logs of sleeps and wake events around the two query times               *)
(***************************************************************************)
WakePool ==
    << Event("long_night", "sleep", At(3, 22, 0), At(4, 7, 0),
             [duration_hours |-> 9, quality |-> "good"]),
       Event("stirring", "wake", At(4, 6, 30), None, [natural_wake |-> TRUE]),
       Event("risen", "wake", At(4, 7, 25), None, [natural_wake |-> TRUE]),
       Event("noon_wake", "wake", At(4, 12, 0), None, [natural_wake |-> TRUE]),
       Event("siesta", "sleep", At(4, 12, 30), At(4, 13, 30),
             [duration_hours |-> 1, quality |-> "fair"]),
       Event("late_nap", "sleep", At(4, 13, 40), At(4, 15, 0),
             [duration_hours |-> 1, quality |-> "good"]),
       Event("evening_wake", "wake", At(4, 18, 0), None, [natural_wake |-> FALSE]) >>

CallWake ==
    /\ pc = "idle"
    /\ \E I \in IndexSets(WakePool), time \in QueryTimes :
          Begin(SubLog(WakePool, I, 1), time)

NextWake == CallWake \/ Passes

SpecWake == Init /\ [][NextWake]_vars

(***************************************************************************)
(* Logs of more than a week's worth of sleep events                        *)
(***************************************************************************)
Sleep(event_id, timestamp, end_timestamp) ==
    Event(event_id, "sleep", timestamp, end_timestamp, [quality |-> "good"])

WeekPool ==
    << Sleep("late_0", At(0, 1, 0), At(0, 8, 0)),
       Sleep("night_0", At(0, 23, 0), At(1, 7, 0)),
       Sleep("rest_1", At(1, 14, 0), At(1, 15, 0)),
       Sleep("night_1", At(1, 23, 0), At(2, 7, 0)),
       Sleep("rest_2", At(2, 13, 0), At(2, 14, 0)),
       Sleep("night_2", At(2, 22, 0), At(3, 6, 0)),
       Sleep("rest_3", At(3, 13, 0), At(3, 14, 0)),
       Sleep("night_3", At(3, 21, 0), At(3, 23, 30)),
       Sleep("late_4", At(4, 2, 0), At(4, 7, 0)) >>

CallWeek ==
    /\ pc = "idle"
    /\ \E I \in SUBSET (1..Len(WeekPool)), time \in QueryTimes :
          Begin(SubLog(WeekPool, I, 1), time)

NextWeek == CallWeek \/ Passes

SpecWeek == Init /\ [][NextWeek]_vars

(***************************************************************************)
(* A few logs queried at every minute of one day                           *)
(***************************************************************************)
DayPool ==
    << Event("early_sleep", "sleep", At(3, 3, 0), At(3, 10, 0),
             [duration_hours |-> 7, quality |-> "good"]),
       Event("deadline", "stress_event", At(3, 22, 0), None,
             [intensity |-> "severe", social_evaluative |-> TRUE]),
       Event("friend", "social_interaction", At(3, 23, 0), None,
             [quality |-> "very_positive", duration_minutes |-> 120]),
       Event("wake_7", "wake", At(4, 7, 0), None, [natural_wake |-> TRUE]),
       Event("wake_8", "wake", At(4, 8, 0), None, [natural_wake |-> FALSE]) >>

DayIndexSets == {{}, {1}, {2}, {3}, {4}, {2, 4}, {4, 5}}

MinutesOfDay == {At(4, 0, 0) + m : m \in 0..(24 * 60 - 1)}

CallDay ==
    /\ pc = "idle"
    /\ \E I \in DayIndexSets, time \in MinutesOfDay :
          Begin(SubLog(DayPool, I, 1), time)

NextDay == CallDay \/ Passes

SpecDay == Init /\ [][NextDay]_vars

(***************************************************************************)
(* The server's estimate_profile handler                                   *)
(***************************************************************************)
\* bound on the number of timeline points followed for one request
MaxPoints == 100

display_days == 4

\* Utc::now() when the request arrives
Now == At(9, 14, 0)

\* req.resolution_hours: i64, taken from the request body as it is
ResolutionHours == {-24, -1, 0, 1, 2, 6, 24}

\* req.timezone_offset_minutes.unwrap_or(0)
TimezoneOffsets == {0, 120}

\* generate_profile_events(&req.profile_id, 11): a routine of the last days
ProfileLogs ==
    { << >>,
      << Event("sleep_6", "sleep", At(6, 23, 0), At(7, 7, 0),
               [duration_hours |-> 8, quality |-> "good"]),
         Event("wake_7", "wake", At(7, 7, 0), None, [natural_wake |-> TRUE]),
         Event("coffee_7", "caffeine", At(7, 8, 0), None,
               [dose_mg |-> 100, form |-> "coffee"]) >> }

\* the scores a TimelinePoint carries: effective_score for dopamine and
\* serotonin when it is Some, modified_score otherwise
TimelinePoint(current_time, r) ==
    [timestamp |-> current_time,
     primitives |->
        [key \in DOMAIN r.primitives |->
            IF key \in {"dopamine", "serotonin"} /\ r.primitives[key].effective_score # None
            THEN r.primitives[key].effective_score
            ELSE r.primitives[key].modified_score]]

\* estimate_profile up to the timeline loop
ReceiveRequest ==
    /\ server.pc = "waiting"
    /\ \E log \in ProfileLogs, resolution_hours \in ResolutionHours,
          tz_offset_minutes \in TimezoneOffsets :
          server' = [pc |-> "timeline",
                     events_for_estimation |-> log,
                     resolution_hours |-> resolution_hours,
                     start_time |-> (Now - tz_offset_minutes) - display_days * 1440,
                     end_time |-> Now - tz_offset_minutes,
                     current_time |-> (Now - tz_offset_minutes) - display_days * 1440,
                     timeline |-> << >>]
    /\ estimator' = NewEstimator
    /\ UNCHANGED << events, estimation_time, pc, locals, result, previous >>

\* while current_time <= end_time: the call of estimate_at_time in the body
TimelineCall ==
    /\ server.pc = "timeline"
    /\ server.current_time <= server.end_time
    /\ Len(server.timeline) < MaxPoints
    /\ Enter(server.events_for_estimation, server.current_time)
    /\ server' = [server EXCEPT !.pc = "estimating"]

\* the rest of the body: timeline.push(TimelinePoint { .. }) and
\* current_time = current_time + Duration::hours(req.resolution_hours)
TimelinePush ==
    /\ server.pc = "estimating"
    /\ pc = "done"
    /\ server' =
          [server EXCEPT
              !.pc = "timeline",
              !.timeline = Append(@, TimelinePoint(server.current_time, result)),
              !.current_time = @ + 60 * server.resolution_hours]
    /\ UNCHANGED << estimator, events, estimation_time, pc, locals, result, previous >>

\* the loop's exit: the call that computes final_result
FinalCall ==
    /\ server.pc = "timeline"
    /\ server.current_time > server.end_time
    /\ Enter(server.events_for_estimation, server.end_time)
    /\ server' = [server EXCEPT !.pc = "final"]

\* HttpResponse::Ok().json(EstimateResponse { timeline, final_state })
Respond ==
    /\ server.pc = "final"
    /\ pc = "done"
    /\ server' = [pc |-> "responded",
                  events_for_estimation |-> server.events_for_estimation,
                  resolution_hours |-> server.resolution_hours,
                  start_time |-> server.start_time,
                  end_time |-> server.end_time,
                  current_time |-> server.current_time,
                  timeline |-> server.timeline,
                  final_state |-> result]
    /\ UNCHANGED << estimator, events, estimation_time, pc, locals, result, previous >>

NextServer ==
    \/ ReceiveRequest
    \/ TimelineCall
    \/ Passes
    \/ TimelinePush
    \/ FinalCall
    \/ Respond

SpecServer == Init /\ [][NextServer]_vars

(***************************************************************************)
(* The functional-state classifier on a grid of effective scores           *)
(***************************************************************************)
ScoreGrid ==
    {0, 50, 100, 101, 2500, 4900, 4999, 5000, 5001, 5900, 5999, 6000, 6001, 8000, 10000}

\* the pairs apply_cross_primitive_modifiers can hand to the classifier:
\* effective_dopamine = (dopamine - 0.15 * serotonin).max(0.0) and
\* effective_serotonin = (serotonin - 0.15 * dopamine).max(0.0) for modified
\* scores in [0,1]; a pair with both members positive comes from
\* dopamine = (d + 0.15 s) / 0.9775 and serotonin = (s + 0.15 d) / 0.9775
EffectivePairs ==
    {pair \in [{"dopamine", "serotonin"} -> ScoreGrid] :
        /\ pair["dopamine"] + Mul(pair["serotonin"], 1500) <= 9775
        /\ pair["serotonin"] + Mul(pair["dopamine"], 1500) <= 9775}

InitClassifier ==
    /\ estimator = NewEstimator
    /\ events = << >>
    /\ estimation_time = 0
    /\ pc = "classify"
    /\ base_scores = EmptyMap
    /\ all_contributors = EmptyMap
    /\ acute_scores = EmptyMap
    /\ chronic_scores = EmptyMap
    /\ sleep_drive = 0
    /\ detected_sequences = << >>
    /\ adjusted_scores = EmptyMap
    /\ cross_modified_scores = EmptyMap
    /\ effective_monoamines \in EffectivePairs
    /\ final_scores = EmptyMap
    /\ confidence_scores = EmptyMap
    /\ applied_constraints = << >>
    /\ da_ser_ratio = 0
    /\ functional_state = "None"
    /\ result = NoResult
    /\ previous = NoResult
    /\ server = NoRequest

NextClassifier == Classify

SpecClassifier == InitClassifier /\ [][NextClassifier]_vars

(***************************************************************************)
(* Properties                                                              *)
(***************************************************************************)
Returned == pc = "done"

InUnit(x) == x >= 0 /\ x <= ONE

IsMeasurement(event) ==
    measurement_type_of(event.event_type) # "None" /\ "value" \in DOMAIN event.properties

Measurements(log) == SelectSeq(log, IsMeasurement)

Affects(log, time, primitive) ==
    \E i \in 1..Len(log) : primitive \in DOMAIN compute_event_impacts(log[i], time)

Records(primitive_or_source_test(_)) ==
    {i \in 1..Len(result.physiological_constraints) :
        primitive_or_source_test(result.physiological_constraints[i])}

\* C1: in every returned result each primitive's base and modified score (and
\* the acute, chronic and effective score of dopamine and serotonin) lies in
\* [0,1] and each confidence lies in [0.1,1.0].
C1_ScoresAndConfidenceInRange ==
    Returned =>
        /\ DOMAIN result.primitives = Primitives
        /\ \A p \in Primitives :
              LET st == result.primitives[p]
              IN  /\ InUnit(st.base_score)
                  /\ InUnit(st.modified_score)
                  /\ st.confidence >= 1000 /\ st.confidence <= ONE
                  /\ p \in {"dopamine", "serotonin"} =>
                        /\ InUnit(st.acute_score)
                        /\ InUnit(st.chronic_score)
                        /\ InUnit(st.effective_score)

C1_Witness ==
    /\ Returned
    /\ Len(result.physiological_constraints) >= 3
    /\ result.primitives["glucose"].confidence = ONE
    /\ result.primitives["glucose"].modified_score # cross_modified_scores["glucose"]
    /\ result.primitives["adenosine"].confidence < ONE

C3_EstimatorUnchanged == estimator = NewEstimator

\* the parts of a result a caller can compare
Observable(r) ==
    [scores |->
        [p \in DOMAIN r.primitives |->
            [base_score |-> r.primitives[p].base_score,
             modified_score |-> r.primitives[p].modified_score,
             confidence |-> r.primitives[p].confidence,
             acute_score |-> r.primitives[p].acute_score,
             chronic_score |-> r.primitives[p].chronic_score,
             effective_score |-> r.primitives[p].effective_score]],
     detected_sequences |-> r.detected_sequences,
     sleep_drive |-> r.sleep_drive,
     dopamine_serotonin_ratio |-> r.dopamine_serotonin_ratio,
     functional_state |-> r.functional_state,
     physiological_constraints |-> r.physiological_constraints]

\* C4: every reordering of the log gives the same scores, confidences,
\* detected sequences, sleep drive, ratio, functional state and constraints.
C4_OrderIndependent ==
    Returned =>
        \A f \in Permutations(1..Len(events)) :
            Observable(estimate_at_time(NewEstimator, Permuted(events, f),
                                        estimation_time).result)
            = Observable(result)

\* no event of the log is a valued measurement within the last 24 hours
NoRecentMeasurement ==
    \A i \in 1..Len(events) :
        IsMeasurement(events[i]) =>
            \/ events[i].timestamp > estimation_time
            \/ events[i].timestamp < estimation_time - 24 * 60

\* C5: without a physiological measurement with a numeric value in the 24
\* hours up to and including the query time, every confidence is 1.0, every
\* modified score is the cross-primitive pass's score and no constraint is
\* recorded.
C5_NoMeasurementNoConstraint ==
    Returned /\ NoRecentMeasurement =>
        /\ \A p \in Primitives :
              /\ result.primitives[p].confidence = ONE
              /\ result.primitives[p].modified_score = cross_modified_scores[p]
        /\ result.physiological_constraints = << >>

C5_Witness ==
    /\ Returned
    /\ NoRecentMeasurement
    /\ \E i \in 1..Len(events) :
          IsMeasurement(events[i]) /\ events[i].timestamp > estimation_time
    /\ \E i \in 1..Len(events) :
          IsMeasurement(events[i]) /\ events[i].timestamp < estimation_time - 24 * 60
    /\ cross_modified_scores["dopamine"] # base_scores["dopamine"]

\* the only measurement of the log is a recent HRV reading below 30 ms and no
\* event affects cortisol
OnlyLowHrv ==
    LET ms == Measurements(events)
    IN  /\ Len(ms) = 1
        /\ ms[1].event_type = "health_hrv"
        /\ ms[1].properties["value"] < 30
        /\ ms[1].timestamp <= estimation_time
        /\ estimation_time - ms[1].timestamp <= 120
        /\ ~Affects(events, estimation_time, "cortisol")

\* C6: when the only measurement of the log is an HRV reading below 30 ms at
\* most 2 hours old and no event affects cortisol, the final cortisol score
\* is at least 0.6 and a constraint record of source HeartRateVariability
\* is reported.
C6_LowHrvFloorsCortisol ==
    Returned /\ OnlyLowHrv =>
        /\ result.primitives["cortisol"].modified_score >= 6000
        /\ Records(LAMBDA c : c.constraint_source = "HeartRateVariability") # {}

C6_Witness ==
    /\ Returned
    /\ OnlyLowHrv
    /\ cross_modified_scores["cortisol"] < 6000
    /\ result.primitives["cortisol"].modified_score = 6000
    /\ Records(LAMBDA c : c.constraint_source = "HeartRateVariability"
                          /\ c.primitive = "cortisol") # {}

\* the condition of C7: the only measurement of the log is one blood-glucose
\* reading below 70 mg/dL taken at the query time and no event affects glucose
OnlyLowGlucoseNow ==
    LET ms == Measurements(events)
    IN  /\ Len(ms) = 1
        /\ ms[1].event_type = "health_blood_glucose"
        /\ ms[1].properties["value"] < 70
        /\ ms[1].timestamp = estimation_time
        /\ ~Affects(events, estimation_time, "glucose")

MentionsHypoglycemia(reason) == reason = "Hypoglycemia triggers cortisol release"

GlucoseBlended ==
    result.primitives["glucose"].modified_score
        = 1400 + Mul(cross_modified_scores["glucose"], 3000)

\* C7 (as stated): under that condition the final glucose score is
\* 0.2*0.7 + s*0.3 and the result always contains a constraint record whose
\* reason mentions Hypoglycemia.
C7_HypoglycemiaAlwaysRecorded ==
    Returned /\ OnlyLowGlucoseNow =>
        /\ GlucoseBlended
        /\ Records(LAMBDA c : MentionsHypoglycemia(c.reason)) # {}

\* C7 (as amended): under that condition the final glucose score is
\* 0.2*0.7 + s*0.3 and the result contains a constraint record whose reason
\* mentions Hypoglycemia exactly when the cortisol score entering validation
\* is below the 0.6 floor.
C7_HypoglycemiaRecordedWhenFloorBinds ==
    Returned /\ OnlyLowGlucoseNow =>
        /\ GlucoseBlended
        /\ Records(LAMBDA c : MentionsHypoglycemia(c.reason)) # {}
              <=> cross_modified_scores["cortisol"] < 6000

C7_Witness ==
    /\ Returned
    /\ OnlyLowGlucoseNow
    /\ Records(LAMBDA c : MentionsHypoglycemia(c.reason)) # {}
    /\ result.primitives["glucose"].modified_score = 2900
    /\ result.primitives["cortisol"].modified_score = 6000


Classified == pc = "assemble"

EffectiveDopamine ==
    Get(effective_monoamines, "dopamine", Get(final_scores, "dopamine", 5000))

EffectiveSerotonin ==
    Get(effective_monoamines, "serotonin", Get(final_scores, "serotonin", 5000))

\* C8: the classifier returns Optimal exactly when d >= 0.6 and s >= 0.6,
\* Driven but Anxious exactly when d >= 0.6 and s < 0.5, Content but
\* Unmotivated exactly when d < 0.5 and s >= 0.6, and Depleted for every other
\* pair of effective scores; (0.6, 0.6) is Optimal and (0.59, 0.6) is not.
C8_ClassifierThresholds ==
    Classified =>
        LET d == EffectiveDopamine
            s == EffectiveSerotonin
        IN  /\ functional_state \in {"Optimal", "Driven but Anxious",
                                     "Content but Unmotivated", "Depleted"}
            /\ functional_state = "Optimal" <=> (d >= 6000 /\ s >= 6000)
            /\ functional_state = "Driven but Anxious" <=> (d >= 6000 /\ s < 5000)
            /\ functional_state = "Content but Unmotivated" <=> (d < 5000 /\ s >= 6000)
            /\ (d = 6000 /\ s = 6000) => functional_state = "Optimal"
            /\ (d = 5900 /\ s = 6000) => functional_state # "Optimal"

C8_Witness ==
    /\ Classified
    /\ EffectiveDopamine = 6000
    /\ EffectiveSerotonin = 6000
    /\ functional_state = "Optimal"

\* the sleep events of the log that start within the 72 hours before the query
SleepsInLookback ==
    SelectSeq(events, LAMBDA e: /\ e.event_type = "sleep"
                                /\ e.timestamp >= estimation_time - 72 * 60
                                /\ e.timestamp <= estimation_time)

\* the (up to) three most recent of them, in log order
MostRecentSleeps ==
    LET n == Len(SleepsInLookback)
    IN  SubSeq(SleepsInLookback, Max(1, n - 2), n)

Chronological(log) ==
    \A i, j \in 1..Len(log) : i < j => log[i].timestamp <= log[j].timestamp

\* C9: for a chronologically ordered log, chronic_sleep_deprivation is
\* detected exactly when at least 2 sleep events start within the 72 hours
\* before the query time and at least 2 of the 3 most recent of them have
\* quality poor or fair (missing quality counts as good), and the detected
\* entries reference the ids of those most recent sleep events.
C9_DetectedOnMostRecentSleeps ==
    (Returned /\ Chronological(events)) =>
        LET recent == MostRecentSleeps
            poor == {i \in 1..Len(recent) :
                        Prop(recent[i], "quality", "good") \in {"poor", "fair"}}
            ids == [i \in 1..Len(recent) |-> recent[i].event_id]
        IN  /\ (result.detected_sequences # << >>)
                  <=> (Len(SleepsInLookback) >= 2 /\ Cardinality(poor) >= 2)
            /\ \A k \in 1..Len(result.detected_sequences) :
                  /\ result.detected_sequences[k].pattern_name
                        = "chronic_sleep_deprivation"
                  /\ result.detected_sequences[k].events = ids

\* C10: detected_sequences is empty or exactly two chronic_sleep_deprivation
\* entries (dopamine -0.2, serotonin -0.15); each adjustment is applied once
\* and additively, so the score entering the cross-primitive pass is
\* clamp(base - 0.2, 0, 1) for dopamine, clamp(base - 0.15, 0, 1) for
\* serotonin and the base score for every other primitive, and the reported
\* base_score is the unadjusted one.
C10_SequenceAdjustmentsAppliedOnce ==
    Returned =>
        LET found == result.detected_sequences
            shift(p) == IF found = << >> THEN 0
                        ELSE IF p = "dopamine" THEN 2000
                        ELSE IF p = "serotonin" THEN 1500
                        ELSE 0
        IN  /\ found = detected_sequences
            /\ \/ found = << >>
               \/ /\ Len(found) = 2
                  /\ \A k \in 1..2 : found[k].pattern_name = "chronic_sleep_deprivation"
                  /\ \E k \in 1..2 : /\ found[k].impact_on_primitive = "dopamine"
                                     /\ found[k].adjustment = -2000
                  /\ \E k \in 1..2 : /\ found[k].impact_on_primitive = "serotonin"
                                     /\ found[k].adjustment = -1500
            /\ DOMAIN adjusted_scores = Primitives
            /\ \A p \in Primitives :
                  /\ adjusted_scores[p] = Clamp(base_scores[p] - shift(p), 0, ONE)
                  /\ result.primitives[p].base_score = base_scores[p]

C10_Witness ==
    /\ Returned
    /\ Len(result.detected_sequences) = 2
    /\ adjusted_scores["dopamine"] = base_scores["dopamine"] - 2000
    /\ adjusted_scores["serotonin"] = base_scores["serotonin"] - 1500
    /\ result.primitives["dopamine"].base_score > adjusted_scores["dopamine"]
    /\ adjusted_scores["cortisol"] = base_scores["cortisol"]

(***************************************************************************)
(* Properties of the dopamine score, the effective pair and the ratio      *)
(***************************************************************************)
Blend(acute_score, chronic_score) ==
    Clamp(Mul(chronic_score, 7000) + Mul(acute_score, 3000), 0, ONE)

\* the sum of the decayed impacts of the contributors reported for a primitive
ReportedImpact(primitive) ==
    SumSeq([i \in 1..Len(result.primitives[primitive].contributors) |->
               result.primitives[primitive].contributors[i].decayed_impact])

\* C11: for a log with caffeine in the 12 hours before the query, the reported
\* dopamine base score reflects the caffeine-plasma boost in addition to the
\* events' decayed impacts: where nothing saturates, either the base score
\* lies above the blend of the reported acute and chronic scores, or the
\* chronic score lies above baseline plus the reported decayed impacts.
C11_DopamineBaseIncludesCaffeineBoost ==
    (/\ Returned
     /\ compute_caffeine_dopamine_boost(events, estimation_time) > 0
     /\ NewEstimator.baseline_values["dopamine"] + ReportedImpact("dopamine") >= 0
     /\ NewEstimator.baseline_values["dopamine"] + ReportedImpact("dopamine") < ONE
     /\ result.primitives["dopamine"].base_score < ONE)
    => \/ result.primitives["dopamine"].base_score
            > Blend(result.primitives["dopamine"].acute_score,
                    result.primitives["dopamine"].chronic_score)
       \/ result.primitives["dopamine"].chronic_score
            > NewEstimator.baseline_values["dopamine"] + ReportedImpact("dopamine")

\* C12: in every result the effective pair is the reciprocal-inhibition image
\* of the reported modified scores, effective(dopamine) = max(0, d - 0.15*s)
\* and effective(serotonin) = max(0, s - 0.15*d); the modified scores are the
\* scores of the modifier pass, not replaced by the effective ones; and the
\* functional state is the classification of this effective pair.
C12_EffectivePairFromModifiedScores ==
    Returned =>
        LET d == result.primitives["dopamine"].modified_score
            s == result.primitives["serotonin"].modified_score
            ed == result.primitives["dopamine"].effective_score
            es == result.primitives["serotonin"].effective_score
        IN  /\ ed = Max(d - Mul(s, 1500), 0)
            /\ es = Max(s - Mul(d, 1500), 0)
            /\ d = cross_modified_scores["dopamine"]
            /\ s = cross_modified_scores["serotonin"]
            /\ result.functional_state = compute_functional_state(ed, es)

C12_Witness ==
    /\ Returned
    /\ result.primitives["dopamine"].modified_score < adjusted_scores["dopamine"]
    /\ result.primitives["dopamine"].confidence < ONE
    /\ result.primitives["dopamine"].effective_score > 0
    /\ result.primitives["dopamine"].effective_score
         < result.primitives["dopamine"].modified_score
    /\ result.primitives["serotonin"].effective_score
         < result.primitives["serotonin"].modified_score

(***************************************************************************)
(* Properties of the physiological validation pass                         *)
(***************************************************************************)
\* the log holds exactly one valued measurement, a step count taken at or
\* before the query time
OneStepsReading ==
    /\ Len(Measurements(events)) = 1
    /\ Measurements(events)[1].event_type = "health_steps"
    /\ Measurements(events)[1].timestamp <= estimation_time

StepsAgeMinutes == estimation_time - Measurements(events)[1].timestamp

\* C13: a step count below 2000 that is between 12 and 30 hours old at the
\* query time lowers the dopamine confidence to 0.6 (impact -0.4) and is
\* recorded as an applied constraint; a step count younger than 12 hours or
\* older than 30 hours has no effect.
C13_StepsPenaltyBetween12And30Hours ==
    (Returned /\ OneStepsReading) =>
        IF /\ Measurements(events)[1].properties["value"] < 2000
           /\ StepsAgeMinutes >= 12 * 60
           /\ StepsAgeMinutes <= 30 * 60
        THEN /\ result.primitives["dopamine"].confidence = 6000
             /\ Records(LAMBDA c : /\ c.constraint_source = "Steps"
                                   /\ c.primitive = "dopamine"
                                   /\ c.confidence_impact = -4000) # {}
        ELSE /\ result.physiological_constraints = << >>
             /\ \A p \in Primitives : result.primitives[p].confidence = ONE

\* the wake time compute_adenosine_special settles on at the query time
MostRecentWake(time) == WakeScan(events, 1, time, None)

\* no sleep, nap or caffeine event of the log lies after the given wake time
NothingAfterWake(wake) ==
    \A i \in 1..Len(events) :
        events[i].event_type \in {"sleep", "nap", "caffeine"}
            => /\ events[i].timestamp <= wake
               /\ events[i].end_timestamp <= wake

\* C14: for a log with a fixed most recent wake time and no sleep, nap or
\* caffeine event after it, a later query time gives a strictly larger
\* adenosine base score than an earlier one.
C14_AdenosineStrictlyIncreasesWithHoursAwake ==
    Returned =>
        \A t2 \in QueryTimes :
            (/\ estimation_time < t2
             /\ MostRecentWake(estimation_time) # None
             /\ MostRecentWake(t2) = MostRecentWake(estimation_time)
             /\ NothingAfterWake(MostRecentWake(estimation_time)))
            => compute_adenosine_special(estimator, events, t2).score
                   > result.primitives["adenosine"].base_score

\* C15: the dopamine/serotonin ratio is non-negative and at most 100; it is
\* effective dopamine over effective serotonin when effective serotonin
\* exceeds 0.01 and effective dopamine over 0.01 otherwise.
C15_RatioGuardedAndBounded ==
    Classified =>
        /\ da_ser_ratio >= 0
        /\ da_ser_ratio <= 100 * ONE
        /\ effective_monoamines["serotonin"] > 100
             => da_ser_ratio = (effective_monoamines["dopamine"] * ONE)
                                   \div effective_monoamines["serotonin"]
        /\ effective_monoamines["serotonin"] <= 100
             => da_ser_ratio = effective_monoamines["dopamine"] * 100

C15_Witness ==
    /\ Classified
    /\ effective_monoamines["serotonin"] > 0
    /\ effective_monoamines["serotonin"] <= 100
    /\ da_ser_ratio > 50 * ONE

\* a contributors list in order of non-increasing absolute decayed impact
Descending(contributors) ==
    \A i \in 1..(Len(contributors) - 1) :
        Abs(contributors[i].decayed_impact) >= Abs(contributors[i + 1].decayed_impact)

\* C16: for every primitive of the result the contributors list is ordered
\* by non-increasing absolute decayed impact.
C16_ContributorsDescending ==
    Returned => \A p \in DOMAIN result.primitives :
                    Descending(result.primitives[p].contributors)

(***************************************************************************)
(* Order of the passes of one call                                         *)
(***************************************************************************)
PassOrder ==
    << "idle", "pass1_adenosine", "pass1_circadian", "pass1_monoamines",
       "pass1_remaining", "sleep_drive", "pass2", "pass3", "pass4", "pass5",
       "classify", "assemble", "done" >>

PassIndex(p) == CHOOSE i \in 1..Len(PassOrder) : PassOrder[i] = p

\* C17: within one call the passes run in the fixed order adenosine,
\* circadian phase, dopamine/serotonin, remaining primitives, sleep drive,
\* sequence detection, sequence adjustment, cross-primitive modifiers,
\* physiological validation, classification, assembly; the adenosine base
\* score is the first one computed, the cross-primitive modifiers read the
\* sequence-adjusted scores, and no physiological constraint has been applied
\* until the cross-primitive modifiers have finished.
C17_FixedPassOrder ==
    [][/\ PassIndex(pc') = PassIndex(pc) + 1
       /\ pc = "pass1_adenosine"
            => /\ base_scores = EmptyMap
               /\ DOMAIN base_scores' = {"adenosine"}
       /\ pc = "pass4"
            => /\ adjusted_scores = apply_sequence_adjustments(base_scores, detected_sequences)
               /\ cross_modified_scores' = apply_cross_primitive_modifiers(adjusted_scores).modified
               /\ effective_monoamines' = apply_cross_primitive_modifiers(adjusted_scores).effective
       /\ PassIndex(pc') <= PassIndex("pass5")
            => /\ applied_constraints' = << >>
               /\ final_scores' = EmptyMap
               /\ confidence_scores' = EmptyMap
       /\ pc = "pass5"
            => /\ cross_modified_scores = apply_cross_primitive_modifiers(adjusted_scores).modified
               /\ final_scores' =
                    apply_physiological_validation(estimator, cross_modified_scores,
                                                   events, estimation_time).scores
      ]_vars

C17_Witness ==
    /\ Returned
    /\ detected_sequences # << >>
    /\ adjusted_scores # base_scores
    /\ apply_cross_primitive_modifiers(adjusted_scores).modified
         # apply_cross_primitive_modifiers(base_scores).modified
    /\ cross_modified_scores # adjusted_scores
    /\ final_scores # cross_modified_scores
    /\ applied_constraints # << >>

\* the cross-primitive modifiers of the call have run
CrossModified == PassIndex(pc) > PassIndex("pass4")

\* C19: the cross-primitive modifier only suppresses: dopamine becomes
\* clamp(d - 0.15*max(0, adenosine - 0.6) - 0.2*max(0, cortisol - 0.6), 0, 1)
\* and serotonin clamp(s - 0.15*max(0, cortisol - 0.6), 0, 1), neither is
\* above its input, both equal their inputs when adenosine and cortisol are
\* at most 0.6, and every other primitive passes through unchanged.
C19_CrossModifierOnlySuppresses ==
    CrossModified =>
        LET d == adjusted_scores["dopamine"]
            s == adjusted_scores["serotonin"]
            a == adjusted_scores["adenosine"]
            c == adjusted_scores["cortisol"]
        IN  /\ cross_modified_scores["dopamine"]
                 = Clamp(d - Mul(1500, Max(0, a - 6000)) - Mul(2000, Max(0, c - 6000)), 0, ONE)
            /\ cross_modified_scores["serotonin"]
                 = Clamp(s - Mul(1500, Max(0, c - 6000)), 0, ONE)
            /\ cross_modified_scores["dopamine"] <= d
            /\ cross_modified_scores["serotonin"] <= s
            /\ (a <= 6000 /\ c <= 6000) => cross_modified_scores = adjusted_scores
            /\ DOMAIN cross_modified_scores = DOMAIN adjusted_scores
            /\ \A p \in DOMAIN adjusted_scores \ {"dopamine", "serotonin"} :
                   cross_modified_scores[p] = adjusted_scores[p]

C19_Witness ==
    /\ CrossModified
    /\ adjusted_scores["adenosine"] > 6000
    /\ adjusted_scores["cortisol"] > 6000
    /\ cross_modified_scores["dopamine"] < adjusted_scores["dopamine"]
    /\ cross_modified_scores["serotonin"] < adjusted_scores["serotonin"]

(***************************************************************************)
(* Constraint application, one constraint at a time                        *)
(***************************************************************************)
\* the physiological validation pass of the call has run
Validated == PassIndex(pc) > PassIndex("pass5")

\* the constraints of the call, in generation order
GeneratedConstraints ==
    generate_all_constraints(
        extract_physiological_measurements(events, estimation_time), estimation_time)

Binds(kind, v, c) == (kind = "Floor" /\ c < v) \/ (kind = "Ceiling" /\ c > v)

ScoreAfter(kind, v, c) ==
    CASE kind = "Floor" -> IF c < v THEN v ELSE c
      [] kind = "Ceiling" -> IF c > v THEN v ELSE c
      [] kind = "Override" -> Mul(7000, v) + Mul(3000, c)
      [] kind = "ConfidencePenalty" -> c

ImpactOf(kind, v, c) ==
    CASE kind \in {"Floor", "Ceiling"} -> IF Binds(kind, v, c) THEN -2000 ELSE 0
      [] kind = "Override" -> 3000
      [] kind = "ConfidencePenalty" -> -(ONE - v)

\* scores and confidences after the first n generated constraints, each
\* applied to what the one before it left
RECURSIVE AfterFirst(_)
AfterFirst(n) ==
    IF n = 0
    THEN [scores |-> cross_modified_scores,
          confidence |-> [p \in DOMAIN cross_modified_scores |-> ONE]]
    ELSE LET before == AfterFirst(n - 1)
             k == GeneratedConstraints[n]
             p == k.affects_primitive
             c == before.scores[p]
         IN  [scores |-> [before.scores EXCEPT ![p] = ScoreAfter(k.kind, k.value, c)],
              confidence |->
                 [before.confidence EXCEPT ![p] =
                     Clamp(@ + ImpactOf(k.kind, k.value, c), 1000, ONE)]]

\* C18: constraints are applied one at a time in generation order, each to
\* the score left by the previous one: Floor(v) raises a lower score to v
\* (impact -0.2), Ceiling(v) lowers a higher score to v (impact -0.2), both
\* change nothing otherwise, Override(v) sets 0.7*v + 0.3*c (impact +0.3),
\* ConfidencePenalty(p) keeps the score (impact -(1-p)); the confidence
\* becomes clamp(k + impact, 0.1, 1.0) and no other primitive changes.
C18_ConstraintsAppliedInOrder ==
    Validated =>
        /\ final_scores = AfterFirst(Len(GeneratedConstraints)).scores
        /\ confidence_scores = AfterFirst(Len(GeneratedConstraints)).confidence

C18_Witness ==
    /\ Validated
    /\ \E i, j \in 1..Len(GeneratedConstraints) :
          /\ i < j
          /\ GeneratedConstraints[i].affects_primitive = "cortisol"
          /\ GeneratedConstraints[j].affects_primitive = "cortisol"
          /\ GeneratedConstraints[i].kind = "Ceiling"
          /\ GeneratedConstraints[j].kind = "Floor"
          /\ AfterFirst(i - 1).scores["cortisol"] > GeneratedConstraints[i].value
          /\ AfterFirst(j - 1).scores["cortisol"] < GeneratedConstraints[j].value
    /\ \E i \in 1..Len(GeneratedConstraints) : GeneratedConstraints[i].kind = "Override"
    /\ \E i \in 1..Len(GeneratedConstraints) :
          GeneratedConstraints[i].kind = "ConfidencePenalty"
    /\ final_scores["cortisol"] = 6000
    /\ confidence_scores["cortisol"] = 6000
    /\ confidence_scores["glucose"] = ONE

\* the score the n-th generated constraint finds on its primitive
ScoreBefore(n) == AfterFirst(n - 1).scores[GeneratedConstraints[n].affects_primitive]

\* the n-th generated constraint is a binding Floor or Ceiling, an Override
\* or a ConfidencePenalty
RecordDue(n) ==
    \/ Binds(GeneratedConstraints[n].kind, GeneratedConstraints[n].value, ScoreBefore(n))
    \/ GeneratedConstraints[n].kind \in {"Override", "ConfidencePenalty"}

\* the n-th generated constraint moved the score by more than 0.01 or had a
\* confidence impact of magnitude above 0.01
ChangeAboveThreshold(n) ==
    \/ Abs(ScoreAfter(GeneratedConstraints[n].kind, GeneratedConstraints[n].value,
                      ScoreBefore(n)) - ScoreBefore(n)) > 100
    \/ Abs(ImpactOf(GeneratedConstraints[n].kind, GeneratedConstraints[n].value,
                    ScoreBefore(n))) > 100

RecordOf(n) ==
    [primitive |-> GeneratedConstraints[n].affects_primitive,
     constraint_source |-> GeneratedConstraints[n].source_measurement,
     original_score |-> ScoreBefore(n),
     adjusted_score |-> ScoreAfter(GeneratedConstraints[n].kind,
                                   GeneratedConstraints[n].value, ScoreBefore(n)),
     confidence_impact |-> ImpactOf(GeneratedConstraints[n].kind,
                                    GeneratedConstraints[n].value, ScoreBefore(n)),
     reason |-> GeneratedConstraints[n].reason]

RECURSIVE RecordsOfFirst(_)
RecordsOfFirst(n) ==
    IF n = 0 THEN << >>
    ELSE RecordsOfFirst(n - 1) \o (IF RecordDue(n) THEN << RecordOf(n) >> ELSE << >>)

\* C20: a record is emitted for a constraint exactly when it changed the
\* score by more than 0.01 or had a confidence impact of magnitude above
\* 0.01: a Floor or Ceiling that does not bind leaves no record, and every
\* binding Floor or Ceiling, every Override and every ConfidencePenalty
\* leaves exactly one record with the score before and after it.
C20_RecordPerEffectiveConstraint ==
    Validated =>
        /\ applied_constraints = RecordsOfFirst(Len(GeneratedConstraints))
        /\ \A n \in 1..Len(GeneratedConstraints) : RecordDue(n) <=> ChangeAboveThreshold(n)

C20_Witness ==
    /\ Validated
    /\ \E n \in 1..Len(GeneratedConstraints) : ~RecordDue(n)
    /\ \E n \in 1..Len(GeneratedConstraints) :
          /\ GeneratedConstraints[n].kind = "ConfidencePenalty"
          /\ (\E r \in 1..Len(applied_constraints) : applied_constraints[r] = RecordOf(n))
    /\ \E n \in 1..Len(GeneratedConstraints) :
          /\ GeneratedConstraints[n].kind = "Floor"
          /\ RecordDue(n)
          /\ (\E r \in 1..Len(applied_constraints) : applied_constraints[r] = RecordOf(n))
    /\ Len(applied_constraints) < Len(GeneratedConstraints)
    /\ Len(applied_constraints) >= 3

(***************************************************************************)
(* Properties of the constraint generators                                 *)
(***************************************************************************)
\* the target, kind and value of each constraint of a list
Shape(constraints) ==
    [i \in 1..Len(constraints) |->
        << constraints[i].affects_primitive, constraints[i].kind, constraints[i].value >>]

\* the constraints the glucose rule prescribes for a reading v taken
\* age_minutes before the query time
GlucoseRule(v, age_minutes) ==
    IF age_minutes > 120 THEN << >>
    ELSE IF v < 70 THEN << << "cortisol", "Floor", 6000 >>, << "glucose", "Override", 2000 >> >>
    ELSE IF v <= 100
         THEN << << "glucose", "Override",
                    5000 + Clamp(((v - 85) * ONE) \div 30, -3000, 3000) >> >>
    ELSE IF v > 140 THEN << << "glucose", "Override", 8000 >> >>
    ELSE << >>

RECURSIVE GlucoseRuleOfLog(_)
GlucoseRuleOfLog(i) ==
    IF i > Len(events) THEN << >>
    ELSE GlucoseRule(events[i].properties["value"], estimation_time - events[i].timestamp)
         \o GlucoseRuleOfLog(i + 1)

WakeInstants ==
    {events[i].timestamp : i \in {j \in 1..Len(events) :
        events[j].event_type = "wake" /\ events[j].timestamp <= estimation_time}}
    \cup
    {events[i].end_timestamp : i \in {j \in 1..Len(events) :
        /\ events[j].event_type = "sleep"
        /\ events[j].end_timestamp # None
        /\ events[j].end_timestamp <= estimation_time}}

LatestOf(S) == CHOOSE x \in S : \A y \in S : y <= x

MinutesAwake ==
    IF WakeInstants = {} THEN 8 * 60 ELSE estimation_time - LatestOf(WakeInstants)

\* the wake accumulation reported among the adenosine contributors
ReportedAccumulation ==
    LET list == result.primitives["adenosine"].contributors
        i == CHOOSE k \in 1..Len(list) : list[k].event_id = "accumulated_wake_time"
    IN  list[i].impact

\* C22: for a chronologically ordered log, hours awake is measured from the
\* latest instant at or before the query time that is a wake event's
\* timestamp or a sleep event's end timestamp, is 8.0 hours when there is no
\* such instant, and is never negative.
C22_HoursAwakeFromLatestWakeInstant ==
    (Returned /\ Chronological(events)) =>
        /\ MinutesAwake >= 0
        /\ hours_awake_minutes(events, estimation_time) = MinutesAwake
        /\ ReportedAccumulation
             = Clamp(ONE - ExpNeg(Ratio(MinutesAwake, 60 * 16)), 0, ONE)

\* the sleep events of the log that start at or before the query time
SleepsSoFar ==
    SelectSeq(events, LAMBDA e : e.event_type = "sleep" /\ e.timestamp <= estimation_time)

\* the (up to) 7 most recent of them, for a chronological log
SevenMostRecentSleeps ==
    IF Len(SleepsSoFar) <= 7 THEN SleepsSoFar
    ELSE SubSeq(SleepsSoFar, Len(SleepsSoFar) - 6, Len(SleepsSoFar))

\* the log without its sleep events
WithoutSleeps == SelectSeq(events, LAMBDA e : e.event_type # "sleep")

\* C23: for a chronologically ordered log the circadian-phase score is
\* computed from the sleep-onset hours of the (up to) 7 most recent sleep
\* events relative to the query time; older sleep events do not influence it.
C23_PhaseFromSevenMostRecentSleeps ==
    (Returned /\ Chronological(events)) =>
        result.primitives["circadian_phase"].base_score
            = compute_circadian_phase_special(
                  estimator, SevenMostRecentSleeps \o WithoutSleeps, estimation_time).score

\* the hour of day of the query shifted by the circadian phase
AdjustedHour ==
    (HourOfDay(estimation_time) + (base_scores["circadian_phase"] - 5000) * 4 + 24 * ONE)
        % (24 * ONE)

\* the distance between two hours on the 24-hour clock
ClockDistance(h, peak) == Min(Abs(h - peak), 24 * ONE - Abs(h - peak))

\* the sleep drive that a circadian sleep pressure would give
DriveWith(pressure) ==
    Clamp(Mul(base_scores["adenosine"], 6000) + Mul(pressure, 4000), 0, ONE)

\* C24: circadian sleep pressure is elevated (in [0.7,1.0], 1.0 at 03:00)
\* whenever the phase-adjusted hour is within 6 hours of 03:00 on the
\* 24-hour clock, 0.2 within 3 hours of 15:00 and 0.5 otherwise; sleep drive
\* is clamp(0.6*adenosine base score + 0.4*pressure, 0, 1).
C24_SleepPressureAroundTheClock ==
    Returned =>
        /\ ClockDistance(AdjustedHour, 3 * ONE) < 6 * ONE
              => /\ result.sleep_drive >= DriveWith(7000)
                 /\ result.sleep_drive <= DriveWith(ONE)
        /\ AdjustedHour = 3 * ONE => result.sleep_drive = DriveWith(ONE)
        /\ ClockDistance(AdjustedHour, 15 * ONE) < 3 * ONE
              => result.sleep_drive = DriveWith(2000)
        /\ (/\ ClockDistance(AdjustedHour, 3 * ONE) > 6 * ONE
            /\ ClockDistance(AdjustedHour, 15 * ONE) > 3 * ONE)
              => result.sleep_drive = DriveWith(5000)

(***************************************************************************)
(* Properties of the cortisol score                                        *)
(***************************************************************************)
\* the healthy baseline for the time of day of the query
HealthyBaseline == 1500 + Mul(5000, cortisol_circadian_multiplier(estimation_time))

\* the part of the cortisol score that the events of the log account for
StressResponse ==
    Mul(Mul(Max(ReportedImpact("cortisol"), 0),
            cortisol_awakening_boost(events, estimation_time)),
        5000 + Mul(5000, cortisol_circadian_multiplier(estimation_time)))

Relaxation == Max(Min(ReportedImpact("cortisol"), 0), -1500)

\* C25: the cortisol base score is clamp(healthy_baseline + stress_load *
\* awakening_multiplier * (0.5 + 0.5*m) + relaxation, 0.15, 1.0) with
\* healthy_baseline = 0.15 + 0.5*m, stress_load >= 0 and
\* -0.15 <= relaxation <= 0: it is never below 0.15 nor above 1.0, events
\* lower it by at most 0.15 below the healthy baseline, and with no
\* cortisol-affecting event it equals the healthy baseline.
C25_CortisolAroundHealthyBaseline ==
    Returned =>
        /\ result.primitives["cortisol"].base_score
             = Clamp(HealthyBaseline + StressResponse + Relaxation, 1500, ONE)
        /\ result.primitives["cortisol"].base_score >= 1500
        /\ result.primitives["cortisol"].base_score <= ONE
        /\ result.primitives["cortisol"].base_score >= HealthyBaseline - 1500
        /\ StressResponse >= 0
        /\ result.primitives["cortisol"].contributors = << >>
             => result.primitives["cortisol"].base_score = HealthyBaseline

C25_Witness ==
    /\ Returned
    /\ ReportedImpact("cortisol") < -1500
    /\ result.primitives["cortisol"].base_score = HealthyBaseline - 1500
    /\ result.primitives["cortisol"].base_score > 1500

\* the time-of-day multiplier at the query time and one minute before it
MultiplierNow == cortisol_circadian_multiplier(estimation_time)

MultiplierAMinuteAgo == cortisol_circadian_multiplier(estimation_time - 1)

MinuteOfDay == Hour(estimation_time) * 60 + Minute(estimation_time)

\* the multiplier stays in [0.25, 1.0], is 0.25 from 00:00 to 02:00, moves
\* by less than 0.01 from one minute to the next, and the healthy baseline
\* it gives stays in [0.15, 0.65]
MultiplierInRangeAndContinuous ==
    Returned =>
        /\ MultiplierNow >= 2500
        /\ MultiplierNow <= ONE
        /\ MinuteOfDay <= 2 * 60 => MultiplierNow = 2500
        /\ Abs(MultiplierNow - MultiplierAMinuteAgo) < 100
        /\ HealthyBaseline >= 1500
        /\ HealthyBaseline <= 6500
        /\ result.primitives["cortisol"].contributors = << >>
             => /\ result.primitives["cortisol"].base_score >= 1500
                /\ result.primitives["cortisol"].base_score <= 6500

\* the multiplier is at its maximum 1.0 within half an hour of 08:30 and at
\* no other time of day
MultiplierPeaksAtHalfPastEight ==
    Returned =>
        /\ MultiplierNow = ONE => Abs(MinuteOfDay - (8 * 60 + 30)) <= 30
        /\ MinuteOfDay = 8 * 60 + 30 => MultiplierNow >= 9900

\* C26: at every minute of the day the cortisol time-of-day multiplier lies
\* in [0.25,1.0], is at its minimum 0.25 throughout 00:00-02:00, reaches its
\* maximum 1.0 at about 08:30 and has no jump at any segment boundary; the
\* healthy baseline lies in [0.15,0.65].
C26_MultiplierShape ==
    MultiplierInRangeAndContinuous /\ MultiplierPeaksAtHalfPastEight

\* the timestamps of the wake events in the 2 hours up to the given time
WakesInLastTwoHours(time) ==
    {events[i].timestamp : i \in {j \in 1..Len(events) :
        /\ events[j].event_type = "wake"
        /\ events[j].timestamp >= time - 2 * 60
        /\ events[j].timestamp <= time}}

\* minutes from the most recent of them to the query time
MinutesSinceWake == estimation_time - LatestOf(WakesInLastTwoHours(estimation_time))

AwakeningNow == cortisol_awakening_boost(events, estimation_time)

AwakeningAMinuteAgo == cortisol_awakening_boost(events, estimation_time - 1)

\* a log that holds nothing but a wake event at the given instant
OnlyWakeAt(instant) == << Event("wake", "wake", instant, None, [natural_wake |-> TRUE]) >>

\* C27: for a chronologically ordered log the cortisol-awakening multiplier
\* is in [1.0,1.75]; the most recent wake event of the 2 hours up to the
\* query time determines it: it rises from 1.0 at the wake instant to 1.75
\* at 35 minutes and falls back to exactly 1.0 at 120 minutes without a
\* jump; it is 1.0 when no wake event lies in that window, and wake events
\* after the query time are ignored.
C27_AwakeningMultiplier ==
    (Returned /\ Chronological(events)) =>
        /\ AwakeningNow >= ONE
        /\ AwakeningNow <= 17500
        /\ WakesInLastTwoHours(estimation_time) = {} => AwakeningNow = ONE
        /\ WakesInLastTwoHours(estimation_time) # {}
             => /\ AwakeningNow
                     = cortisol_awakening_boost(
                           OnlyWakeAt(LatestOf(WakesInLastTwoHours(estimation_time))),
                           estimation_time)
                /\ MinutesSinceWake = 0 => AwakeningNow = ONE
                /\ MinutesSinceWake = 35 => AwakeningNow = 17500
                /\ MinutesSinceWake = 120 => AwakeningNow = ONE
                /\ (MinutesSinceWake > 0 /\ MinutesSinceWake <= 35)
                     => AwakeningNow > AwakeningAMinuteAgo
                            \/ WakesInLastTwoHours(estimation_time - 1)
                                   # WakesInLastTwoHours(estimation_time)
                /\ MinutesSinceWake > 35 => AwakeningNow < AwakeningAMinuteAgo
        /\ (WakesInLastTwoHours(estimation_time - 1) = WakesInLastTwoHours(estimation_time)
            \/ WakesInLastTwoHours(estimation_time) = {})
             => Abs(AwakeningNow - AwakeningAMinuteAgo) < 300
        /\ result.primitives["cortisol"].base_score
             = Clamp(HealthyBaseline
                       + Mul(Mul(Max(ReportedImpact("cortisol"), 0),
                                 IF WakesInLastTwoHours(estimation_time) = {} THEN ONE
                                 ELSE cortisol_awakening_boost(
                                          OnlyWakeAt(LatestOf(
                                              WakesInLastTwoHours(estimation_time))),
                                          estimation_time)),
                             5000 + Mul(5000, MultiplierNow))
                       + Relaxation,
                     1500, ONE)

C27_Witness ==
    /\ Returned
    /\ Cardinality(WakesInLastTwoHours(estimation_time)) = 2
    /\ MinutesSinceWake = 35
    /\ AwakeningNow = 17500

(***************************************************************************)
(* Frame properties                                                        *)
(***************************************************************************)
\* the log without the events that start after the query time
EventsSoFar == SelectSeq(events, LAMBDA e : e.timestamp <= estimation_time)

\* C28: events whose start timestamp is later than the query time have no
\* effect on the estimate: removing them from the log leaves every field of
\* the result unchanged.
C28_FutureEventsHaveNoEffect ==
    Returned => result = estimate_at_time(NewEstimator, EventsSoFar, estimation_time).result

C30_TimelineTerminates ==
    server.pc # "waiting" =>
        /\ \A i \in 1..Len(server.timeline) :
              /\ server.timeline[i].timestamp
                    = server.start_time + (i - 1) * 60 * server.resolution_hours
              /\ server.timeline[i].timestamp >= server.start_time
              /\ server.timeline[i].timestamp <= server.end_time
        /\ \A i \in 1..Len(server.timeline) - 1 :
              server.timeline[i].timestamp < server.timeline[i + 1].timestamp

\* the same statement for requests whose resolution_hours is positive
C30_PositiveResolution ==
    server.pc # "waiting" /\ server.resolution_hours > 0
        => C30_TimelineTerminates

\* a request with a positive resolution is answered with its whole timeline
C30_Answered ==
    /\ server.pc = "responded"
    /\ server.resolution_hours = 6
    /\ Len(server.timeline) = 17

\* the loop of a request with resolution_hours = 0 is still in the window
\* after more points than any positive resolution produces
C30_StillLooping ==
    /\ server.pc = "timeline"
    /\ server.resolution_hours <= 0
    /\ Len(server.timeline) > display_days * 24 + 1
    /\ server.current_time <= server.end_time

=============================================================================
